---- MODULE Spec2Model ----
(***************************************************************************)
(* Model of the rejection-automation scripts:                              *)
(*   src/version10-email-only-copy.py  (the dashboard and its helpers)     *)
(*   src/list_leads.py, src/allfields.py, src/customfields.py (scripts)    *)
(*                                                                         *)
(* A Python str is a sequence of atoms.  An atom is one character, or an   *)
(* opaque run of text with no brace in it, or one whole "{name}"           *)
(* placeholder; concatenation of strings is \o.  JSON values are tagged    *)
(* records (Str, None, List, ...), so that a null, a missing key and an    *)
(* empty string stay three different things.                               *)
(***************************************************************************)
EXTENDS Integers, Sequences, FiniteSets, TLC

VARIABLES
    \* templates and generate_rejection_email
    EMAIL_TEMPLATES,   \* module global, set once at import time
    EMAIL_ADDRESS,     \* module global, from the secrets store / environment
    gen_args,          \* arguments of the last generate_rejection_email call
    email_content,     \* what that call returned
    \* get_custom_field and get_lead_source
    current_lead,      \* the lead record handed to the helpers
    gcf_call,          \* the last get_custom_field call: [field_name |-> ...]
    gcf_ret,           \* what it returned
    source_ret,        \* what the last get_lead_source call returned (or raised)
    \* timestamps
    clock,             \* [now |-> epoch seconds, tz |-> the host's time zone]
    time_call,         \* the last call: [fn, timestamp, at (the clock then)]
    time_ret,          \* what it returned, or printed
    \* CRM and SMTP calls
    COPPER_API_TOKEN,  \* module globals, from the secrets store / environment
    COPPER_EMAIL,
    EMAIL_PASSWORD,
    LEAD_DETAILS_CACHE,       \* module global: lead id -> details
    FIELD_DEFINITIONS_CACHE,  \* module global: None, or definition id -> name
    net_call,          \* the last CRM or SMTP operation and its arguments
    net_ret,           \* what it returned, or the exception it let through
    net_log,           \* the network steps that operation performed, in order
    log_records,       \* the logger's records that were formatted from a credential
    \* the dashboard session
    selected_leads,    \* st.session_state.selected_leads
    email_cache,       \* st.session_state.email_cache
    screen,            \* what the last script run put on the page
    pending_rerun,     \* st.rerun() was called: the script is about to run again
    opened             \* the leads whose expander is open in the browser

email_vars == <<EMAIL_TEMPLATES, EMAIL_ADDRESS, gen_args, email_content>>
field_vars == <<current_lead, gcf_call, gcf_ret, source_ret>>
time_vars == <<clock, time_call, time_ret>>
config_vars == <<COPPER_API_TOKEN, COPPER_EMAIL, EMAIL_PASSWORD>>
cache_vars == <<LEAD_DETAILS_CACHE, FIELD_DEFINITIONS_CACHE>>
call_vars == <<net_call, net_ret, net_log>>
net_vars == <<config_vars, cache_vars, call_vars, log_records>>
ui_vars == <<selected_leads, email_cache, screen, pending_rerun, opened>>
vars == <<email_vars, field_vars, time_vars, net_vars, ui_vars>>

\* What an operation of one group leaves alone: the state of the others
not_email_vars == <<field_vars, time_vars, net_vars, ui_vars>>
not_field_vars == <<email_vars, time_vars, net_vars, ui_vars>>
not_time_vars == <<email_vars, field_vars, net_vars, ui_vars>>
not_net_vars == <<email_vars, field_vars, time_vars, ui_vars>>


(***************************************************************************)
(* JSON / Python values                                                    *)
(***************************************************************************)
Str(s) == [t |-> "str", s |-> s]
None == [t |-> "none"]
Absent == [t |-> "absent"]
NotCalled == [t |-> "not_called"]

IsStr(v) == v.t = "str"

\* str.lower() on one character
LowerChar(c) ==
    CASE c = "A" -> "a" [] c = "B" -> "b" [] c = "C" -> "c" [] c = "D" -> "d"
      [] c = "E" -> "e" [] c = "F" -> "f" [] c = "G" -> "g" [] c = "H" -> "h"
      [] c = "I" -> "i" [] c = "J" -> "j" [] c = "K" -> "k" [] c = "L" -> "l"
      [] c = "M" -> "m" [] c = "N" -> "n" [] c = "O" -> "o" [] c = "P" -> "p"
      [] c = "Q" -> "q" [] c = "R" -> "r" [] c = "S" -> "s" [] c = "T" -> "t"
      [] c = "U" -> "u" [] c = "V" -> "v" [] c = "W" -> "w" [] c = "X" -> "x"
      [] c = "Y" -> "y" [] c = "Z" -> "z" [] OTHER -> c

\* str.upper() on one character
UpperChar(c) ==
    CASE c = "a" -> "A" [] c = "b" -> "B" [] c = "c" -> "C" [] c = "d" -> "D"
      [] c = "e" -> "E" [] c = "f" -> "F" [] c = "g" -> "G" [] c = "h" -> "H"
      [] c = "i" -> "I" [] c = "j" -> "J" [] c = "k" -> "K" [] c = "l" -> "L"
      [] c = "m" -> "M" [] c = "n" -> "N" [] c = "o" -> "O" [] c = "p" -> "P"
      [] c = "q" -> "Q" [] c = "r" -> "R" [] c = "s" -> "S" [] c = "t" -> "T"
      [] c = "u" -> "U" [] c = "v" -> "V" [] c = "w" -> "W" [] c = "x" -> "X"
      [] c = "y" -> "Y" [] c = "z" -> "Z" [] OTHER -> c

Lower(s) == [i \in DOMAIN s |-> LowerChar(s[i])]

\* Python's `sub in s` for strings
Contains(s, sub) ==
    \E i \in 1..(Len(s) - Len(sub) + 1) : SubSeq(s, i, i + Len(sub) - 1) = sub

\* str.capitalize(): first character upper-cased, the rest lower-cased
Capitalize(s) ==
    IF s = <<>> THEN <<>>
    ELSE <<UpperChar(Head(s))>> \o Lower(Tail(s))

\* str.split(sep)[0]: the text before the first separator (all of it if none)
RECURSIVE BeforeFirst(_, _)
BeforeFirst(s, sep) ==
    IF s = <<>> \/ Head(s) = sep THEN <<>>
    ELSE <<Head(s)>> \o BeforeFirst(Tail(s), sep)

\* str.replace(old, new) where `old` is one placeholder atom
RECURSIVE Replace(_, _, _)
Replace(s, old, new) ==
    IF s = <<>> THEN <<>>
    ELSE (IF Head(s) = old THEN new ELSE <<Head(s)>>) \o Replace(Tail(s), old, new)


\* dict.get(key, default)
Get(d, key, default) == IF key \in DOMAIN d THEN d[key] ELSE default

(***************************************************************************)
(* Email templates and generate_rejection_email                            *)
(***************************************************************************)

\* The keys the dashboard's reason selectbox offers (reason_options)
ReasonKeys ==
    {"hardware", "too_early", "geography", "too_far_along",
     "not_enough_impact", "competitive", "general"}

\* The template types a caller may pass: the reasons, and the default argument
TemplateTypes == ReasonKeys \cup {"standard"}

\* The built-in fallback store
DefaultTemplates ==
    [k \in {"general"} |->
        <<"Hi ", "{first_name}",
          ",\n\nThanks so much for reaching out to Active Impact!\n\nThank you for your interest in our fund, but we've decided to pass on this opportunity.\n\nWarmly,">>]

\* Contents an email_templates.json may have (the file is configuration, not
\* part of the sources): a store with every reason, and one with a "standard"
\* entry only.
FileStoreAll ==
    [k \in ReasonKeys |->
        <<"Dear ", "{lead_name}", " of ", "{company_name}", ", we pass: ", k,
          ". ", "{sender_name}">>]

FileStoreStandard ==
    [k \in {"standard"} |-> <<"Dear ", "{lead_name}", ", we pass.">>]

EmptyStore == [k \in {} |-> <<>>]

\* What open()+json.load() of one candidate path gives
Unreadable == [ok |-> FALSE, store |-> EmptyStore]
Loaded(store) == [ok |-> TRUE, store |-> store]

FileOutcomes ==
    {Unreadable, Loaded(EmptyStore), Loaded(FileStoreAll), Loaded(FileStoreStandard)}

\* The three possible_paths are tried in order; the first that loads wins
\* (break), the others are skipped; an empty result is replaced by the default.
LoadTemplates(files) ==
    LET loaded == {i \in DOMAIN files : files[i].ok}
        first == IF loaded = {} THEN EmptyStore
                 ELSE files[CHOOSE i \in loaded : \A j \in loaded : i <= j].store
    IN  IF DOMAIN first = {} THEN DefaultTemplates ELSE first

\* get_sender_name(email): the local part without its last character,
\* capitalised.  (The bare except is unreachable for a str argument.)
get_sender_name(email) ==
    LET local_part == BeforeFirst(email, "@")
        first_name == IF Len(local_part) > 1
                      THEN SubSeq(local_part, 1, Len(local_part) - 1)
                      ELSE local_part
    IN  Capitalize(first_name)

\* lead_data.get(key, ""): the stored value (a null stays a null)
LeadGet(v) == IF v = Absent THEN Str(<<>>) ELSE v

Signature(sender_name) == <<"\n\nWarmly,\n">> \o sender_name

\* generate_rejection_email(lead_data, template_type).  str.replace raises
\* TypeError for a None replacement; the except clause turns that into None.
generate_rejection_email(lead_data, template_type) ==
    LET template == Get(EMAIL_TEMPLATES, template_type,
                        Get(EMAIL_TEMPLATES, "standard", <<>>))
        sender_name == get_sender_name(EMAIL_ADDRESS)
        name == LeadGet(lead_data.name)
        company == LeadGet(lead_data.company_name)
    IN  IF template = <<>> THEN None
        ELSE IF ~IsStr(name) \/ ~IsStr(company) THEN None
        ELSE Str(Replace(Replace(Replace(template,
                                         "{lead_name}", name.s),
                                 "{company_name}", company.s),
                         "{sender_name}", sender_name)
                 \o Signature(sender_name))

\* Sample inputs
EmailAddresses ==
    { <<>>,
      <<"m", "i", "k", "e", "w", "@", "a", "i", ".", "c", "a">>,
      <<"J", "O", "@", "x">>,
      <<"k", "@", "x">> }

LeadNames == {Absent, Str(<<"Ann Lee">>), Str(<<"Bo">>)}
CompanyNames == {Absent, None, Str(<<"Acme">>)}
LeadDataSamples == [name : LeadNames, company_name : CompanyNames]

InitEmail ==
    /\ \E files \in [1..3 -> FileOutcomes] : EMAIL_TEMPLATES = LoadTemplates(files)
    /\ EMAIL_ADDRESS \in EmailAddresses
    /\ gen_args = NotCalled
    /\ email_content = NotCalled

GenerateRejectionEmail ==
    \E lead_data \in LeadDataSamples, template_type \in TemplateTypes :
        /\ gen_args' = [lead_data |-> lead_data, template_type |-> template_type]
        /\ email_content' = generate_rejection_email(lead_data, template_type)
        /\ UNCHANGED <<EMAIL_TEMPLATES, EMAIL_ADDRESS, not_email_vars>>

NextEmail == GenerateRejectionEmail


\* The "{name}" placeholders a template may carry
Placeholders == {"{lead_name}", "{company_name}", "{sender_name}", "{first_name}"}

HasSuffix(s, suffix) ==
    /\ Len(s) >= Len(suffix)
    /\ SubSeq(s, Len(s) - Len(suffix) + 1, Len(s)) = suffix

\* C1: for every template of EMAIL_TEMPLATES, the built-in default included,
\* and every lead whose name and company are given as text,
\* generate_rejection_email returns a text in which no placeholder is left
\* and which ends with the signature block "\n\nWarmly,\n<sender first name>".
C1_NoPlaceholderSurvives ==
    ( /\ gen_args # NotCalled
      /\ gen_args.template_type \in DOMAIN EMAIL_TEMPLATES
      /\ IsStr(LeadGet(gen_args.lead_data.name))
      /\ IsStr(LeadGet(gen_args.lead_data.company_name)) )
    => /\ IsStr(email_content)
       /\ \A i \in DOMAIN email_content.s : email_content.s[i] \notin Placeholders
       /\ HasSuffix(email_content.s, Signature(get_sender_name(EMAIL_ADDRESS)))


(***************************************************************************)
(* Lead records, get_custom_field and get_lead_source                      *)
(*                                                                         *)
(* A custom-field record of a list-shaped container is                     *)
(*   [t |-> "dict", name, computed_value, value], a missing key Absent;    *)
(* anything else in the list is NonDict.  A mapping-shaped container maps  *)
(* field names to entries: a text, a null, or a record with                *)
(* computed_value / value keys.  Field names are only compared, so they    *)
(* are atoms; every other text is a sequence of characters.                *)
(***************************************************************************)
List(items) == [t |-> "list", items |-> items]
Field(name, computed_value, value) ==
    [t |-> "dict", name |-> name, computed_value |-> computed_value, value |-> value]
NonDict == [t |-> "other"]
\* field.get("name") of a record that has no "name" key: equal to no field name
NoName == "<no name key>"
Entry(computed_value, value) ==
    [t |-> "dict", computed_value |-> computed_value, value |-> value]
ListFields(items) == [t |-> "list", items |-> items]
DictFields(map) == [t |-> "mapping", map |-> map]
Raised(exc) == [t |-> "raise", exc |-> exc]

\* Python truthiness of a value
Truthy(v) ==
    CASE v.t = "str" -> v.s # <<>>
      [] v.t = "list" -> v.items # <<>>
      [] v.t = "mapping" -> DOMAIN v.map # {}
      [] v.t = "dict" -> TRUE
      [] OTHER -> FALSE

\* ", ".join(str(item) for item in items)
RECURSIVE Join(_)
Join(items) ==
    IF items = <<>> THEN <<>>
    ELSE IF Len(items) = 1 THEN Head(items)
    ELSE Head(items) \o <<",", " ">> \o Join(Tail(items))

\* The for loop of get_custom_field over a list-shaped container, from item i
RECURSIVE ScanFields(_, _, _)
ScanFields(items, field_name, i) ==
    IF i > Len(items) THEN Str(<<>>)
    ELSE LET field == items[i] IN
         IF field.t = "dict" /\ field.name = field_name
         THEN IF field.computed_value # Absent
              THEN IF field.computed_value.t = "list"
                   THEN Str(Join(field.computed_value.items))
                   ELSE field.computed_value
              ELSE IF field.value = Absent THEN Str(<<>>) ELSE field.value
         ELSE ScanFields(items, field_name, i + 1)

\* lead_details.get("custom_fields", [])
CustomFieldsOf(lead_details) ==
    IF lead_details.custom_fields = Absent THEN ListFields(<<>>)
    ELSE lead_details.custom_fields

get_custom_field_prefers_raw(lead_details, field_name) ==
    LET custom_fields == CustomFieldsOf(lead_details) IN
    IF ~Truthy(custom_fields) THEN Str(<<>>)
    ELSE IF custom_fields.t = "list"
         THEN LET hit == {i \in DOMAIN custom_fields.items :
                             /\ custom_fields.items[i].t = "dict"
                             /\ custom_fields.items[i].name = field_name}
              IN  IF hit = {} THEN Str(<<>>)
                  ELSE LET f == custom_fields.items[CHOOSE i \in hit : \A j \in hit : i <= j]
                       IN  IF f.value # Absent THEN f.value
                           ELSE IF f.computed_value = Absent THEN Str(<<>>)
                           ELSE IF f.computed_value.t = "list"
                                THEN Str(Join(f.computed_value.items))
                                ELSE f.computed_value
    ELSE IF custom_fields.t = "mapping"
         THEN Get(custom_fields.map, field_name, Str(<<>>))
    ELSE Str(<<>>)

\* get_custom_field(lead_details, field_name)
get_custom_field(lead_details, field_name) ==
    LET custom_fields == CustomFieldsOf(lead_details) IN
    IF ~Truthy(custom_fields) THEN Str(<<>>)
    ELSE IF custom_fields.t = "list"
         THEN ScanFields(custom_fields.items, field_name, 1)
    ELSE IF custom_fields.t = "mapping"
         THEN Get(custom_fields.map, field_name, Str(<<>>))
    ELSE Str(<<>>)


\* The needles of get_lead_source
FORM == <<"f", "o", "r", "m">>
WEBSITE == <<"w", "e", "b", "s", "i", "t", "e">>
SUBMISSION == <<"s", "u", "b", "m", "i", "s", "s", "i", "o", "n">>

\* `filled_fields > 5` and `len(custom_fields) > 5`
MANY_FIELDS == 5

form_indicator_fields ==
    <<"Revenue Model", "Last year's revenue", "Number of full time employees">>

Returned(v) == [t |-> "return", v |-> v]

\* lead_details.get("tags", [])
TagsOf(lead_details) ==
    IF lead_details.tags = Absent THEN <<>> ELSE lead_details.tags.items

\* any("form" in tag.lower() for tag in tags)
TagsMentionForm(lead_details) ==
    \E i \in DOMAIN TagsOf(lead_details) :
        Contains(Lower(TagsOf(lead_details)[i]), FORM)

\* The source-name check: source must be a dict with a truthy name
SourceNameMentionsForm(lead_details) ==
    LET source == lead_details.source IN
    /\ source.t = "dict"
    /\ Truthy(source.name)
    /\ LET source_name == Lower(source.name.s) IN
       \/ Contains(source_name, FORM)
       \/ Contains(source_name, WEBSITE)
       \/ Contains(source_name, SUBMISSION)

\* The "Source" custom field check, for a text source_info
SourceFieldMentionsForm(source_info) ==
    /\ Truthy(source_info)
    /\ \/ Contains(Lower(source_info.s), FORM)
       \/ Contains(Lower(source_info.s), WEBSITE)

\* sum(1 for field in custom_fields if isinstance(field, dict) and field.get("value"))
filled_fields(items) ==
    Cardinality({i \in DOMAIN items :
                    items[i].t = "dict" /\ Truthy(items[i].value)})

ManyFilledFields_more_than_six(lead_details) ==
    LET custom_fields == CustomFieldsOf(lead_details) IN
    /\ custom_fields.t = "list"
    /\ Len(custom_fields.items) > MANY_FIELDS + 1
    /\ filled_fields(custom_fields.items) > MANY_FIELDS + 1

ManyFilledFields_at_least(lead_details) ==
    LET custom_fields == CustomFieldsOf(lead_details) IN
    /\ custom_fields.t = "list"
    /\ Len(custom_fields.items) >= MANY_FIELDS
    /\ filled_fields(custom_fields.items) >= MANY_FIELDS

\* The "many filled custom fields" check: list-shaped containers only
ManyFilledFields(lead_details) ==
    LET custom_fields == CustomFieldsOf(lead_details) IN
    /\ custom_fields.t = "list"
    /\ Len(custom_fields.items) > MANY_FIELDS
    /\ filled_fields(custom_fields.items) > MANY_FIELDS

\* any(get_custom_field(lead_details, field) for field in form_indicator_fields)
HasFormIndicatorField(lead_details) ==
    \E i \in DOMAIN form_indicator_fields :
        Truthy(get_custom_field(lead_details, form_indicator_fields[i]))

\* get_lead_source(lead_details).  source_info.lower() raises AttributeError
\* when the "Source" custom field holds a truthy value that is no str.
get_lead_source(lead_details) ==
    IF TagsMentionForm(lead_details) THEN Returned("Form Submission")
    ELSE IF SourceNameMentionsForm(lead_details) THEN Returned("Form Submission")
    ELSE LET source_info == get_custom_field(lead_details, "Source") IN
         IF Truthy(source_info) /\ ~IsStr(source_info) THEN Raised("AttributeError")
         ELSE IF SourceFieldMentionsForm(source_info) THEN Returned("Form Submission")
         ELSE IF ManyFilledFields(lead_details) THEN Returned("Form Submission")
         ELSE IF HasFormIndicatorField(lead_details) THEN Returned("Form Submission")
         ELSE Returned("Manually Added")



\* Largest number of records in a sampled custom-field container
MaxFields == 7

\* Sample texts
TxtVip == <<"v", "i", "p">>
TxtWebForm == <<"W", "e", "b", " ", "F", "o", "r", "m">>
TxtFORMS == <<"F", "O", "R", "M", "S">>
TxtFor == <<"f", "o", "r">>
TxtWebSite == <<"W", "e", "b", "S", "i", "t", "e">>
TxtSubmission == <<"S", "u", "b", "m", "i", "s", "s", "i", "o", "n", "s">>
TxtReferral == <<"R", "e", "f">>
TxtSaaS == <<"S", "a", "a", "S">>
TxtA == <<"a">>
TxtB == <<"b">>

TagSamples ==
    { Absent, List(<<>>), List(<<TxtVip>>), List(<<TxtVip, TxtWebForm>>),
      List(<<TxtFORMS>>), List(<<TxtFor, TxtVip>>) }

SourceRecord(name) == [t |-> "dict", name |-> name]

SourceSamples ==
    { Absent, None, Str(TxtWebSite),
      SourceRecord(Absent), SourceRecord(None), SourceRecord(Str(<<>>)),
      SourceRecord(Str(TxtReferral)), SourceRecord(Str(TxtWebSite)),
      SourceRecord(Str(TxtSubmission)), SourceRecord(Str(TxtFORMS)) }

\* Field names that are neither "Source" nor a form indicator
PlainNames == <<"Other", "Stage", "City", "Country", "Website", "Year Founded",
                "Competitors", "Cash on hand", "Monthly net burn">>

FieldNames ==
    {"Source", "Other", "Stage"} \cup {form_indicator_fields[i] : i \in DOMAIN form_indicator_fields}

\* A list of n plain records of which the first m are filled in; the others
\* carry a null, an empty or no value
Filled(n, m) ==
    ListFields([i \in 1..n |->
        Field(PlainNames[i], Absent,
              IF i <= m THEN Str(TxtA)
              ELSE IF i % 3 = 0 THEN None
              ELSE IF i % 3 = 1 THEN Str(<<>>) ELSE Absent)])

\* A mapping of n plain names, the first m of them filled in
FilledMapping(n, m) ==
    DictFields([k \in {PlainNames[i] : i \in 1..n} |->
        IF \E i \in 1..m : PlainNames[i] = k THEN Str(TxtA) ELSE Str(<<>>)])

ComputedSamples == {Absent, None, Str(TxtWebForm), Str(TxtB), List(<<TxtA, TxtB>>), List(<<>>)}
ValueSamples == {Absent, None, Str(<<>>), Str(TxtWebSite), Str(TxtA)}

ContainerSamples ==
    { Absent, None, ListFields(<<>>), DictFields(EmptyStore) }
    \cup { Filled(n, m) : n \in 0..MaxFields, m \in 0..MaxFields }
    \cup { FilledMapping(n, m) : n \in {2, MaxFields - 1, MaxFields}, m \in {0, 2, MaxFields - 1} }
    \cup { ListFields(<<NonDict, Field("Other", Absent, Str(TxtA)), Field(name, cv, v)>>) :
              name \in {"Source"}, cv \in ComputedSamples, v \in ValueSamples }
    \cup { ListFields(<<Field("Stage", Str(TxtB), Str(TxtA)), Field("Stage", Absent, Str(TxtWebForm))>>),
           ListFields(<<Field(NoName, Absent, Str(TxtA)), Field("Revenue Model", Absent, Str(TxtSaaS))>>),
           ListFields(<<Field("Number of full time employees", Str(TxtA), None)>>),
           ListFields(<<Field("Last year's revenue", Absent, Str(<<>>))>>),
           ListFields(<<Field("Source", Absent, List(<<TxtA>>))>>) }
    \cup { DictFields([k \in {"Source", "Stage"} |-> e]) :
              e \in {Str(TxtWebForm), Str(TxtA), None, Entry(Str(TxtB), Str(TxtA)),
                     Entry(Absent, Str(TxtA))} }
    \cup { DictFields([k \in {"Revenue Model"} |-> Str(TxtSaaS)]) }

LeadSamples ==
    [tags : TagSamples, source : SourceSamples, custom_fields : ContainerSamples]

InitFields ==
    /\ current_lead \in LeadSamples
    /\ gcf_call = NotCalled
    /\ gcf_ret = NotCalled
    /\ source_ret = NotCalled

GetCustomField ==
    \E field_name \in FieldNames :
        /\ gcf_call' = [field_name |-> field_name]
        /\ gcf_ret' = get_custom_field(current_lead, field_name)
        /\ UNCHANGED <<current_lead, source_ret, not_field_vars>>

GetLeadSource ==
    /\ source_ret' = get_lead_source(current_lead)
    /\ UNCHANGED <<current_lead, gcf_call, gcf_ret, not_field_vars>>

NextFields == GetCustomField \/ GetLeadSource



(***************************************************************************)
(* Claims about get_custom_field and get_lead_source                       *)
(***************************************************************************)

\* The record of a field in a container of either shape, Absent if none:
\* the first record of that name in a list, the entry of that name in a mapping
TheField(custom_fields, field_name) ==
    IF custom_fields.t = "list"
    THEN LET hit == {i \in DOMAIN custom_fields.items :
                        /\ custom_fields.items[i].t = "dict"
                        /\ custom_fields.items[i].name = field_name}
         IN  IF hit = {} THEN Absent
             ELSE custom_fields.items[CHOOSE i \in hit : \A j \in hit : i <= j]
    ELSE IF custom_fields.t = "mapping" /\ field_name \in DOMAIN custom_fields.map
    THEN custom_fields.map[field_name]
    ELSE Absent

\* A computed value as text: a list is shown joined with ", "
Rendered(v) == IF v.t = "list" THEN Str(Join(v.items)) ELSE v

\* The three-step rule on one field: computed value, else raw value, else ""
\* (a mapping entry that is no record is the field's raw value)
ThreeStep(f) ==
    IF f = Absent THEN Str(<<>>)
    ELSE IF f.t = "dict"
         THEN IF f.computed_value # Absent THEN Rendered(f.computed_value)
              ELSE IF f.value # Absent THEN f.value
              ELSE Str(<<>>)
    ELSE f

\* C2 (as stated): get_custom_field returns the field's computed value when
\* one is present, otherwise its raw value, otherwise the empty string, for a
\* list of field records and for a mapping keyed by field name alike.
C2_ThreeStepBothShapes ==
    gcf_call # NotCalled =>
        gcf_ret = ThreeStep(TheField(CustomFieldsOf(current_lead), gcf_call.field_name))

\* C2 (amended): in a list of field records the first record of that name
\* gives its computed value when the key is present (a list joined with
\* ", "), otherwise its raw value, otherwise ""; in a mapping keyed by field
\* name the stored entry is returned as it is, whatever it holds, and "" when
\* the name is missing.
C2_ThreeStepListEntryMapping ==
    gcf_call # NotCalled =>
        LET custom_fields == CustomFieldsOf(current_lead)
            f == TheField(custom_fields, gcf_call.field_name)
        IN  IF custom_fields.t = "mapping"
            THEN gcf_ret = (IF f = Absent THEN Str(<<>>) ELSE f)
            ELSE gcf_ret = ThreeStep(f)

\* A call on a list whose record carries both a computed and a raw value
C2_Witness ==
    /\ gcf_call # NotCalled
    /\ CustomFieldsOf(current_lead).t = "list"
    /\ LET f == TheField(CustomFieldsOf(current_lead), gcf_call.field_name) IN
       /\ f # Absent
       /\ f.computed_value = Str(TxtWebForm)
       /\ f.value = Str(TxtA)
    /\ gcf_ret = Str(TxtWebForm)



\* The value of a custom field as text-or-null, by the amended rule of C2
FieldValue(lead, field_name) ==
    LET custom_fields == CustomFieldsOf(lead)
        f == TheField(custom_fields, field_name)
    IN  IF custom_fields.t = "mapping"
        THEN (IF f = Absent THEN Str(<<>>) ELSE f)
        ELSE ThreeStep(f)

MentionsAny(text, needles) ==
    \E n \in needles : Contains(Lower(text), n)

\* Some tag contains "form", whatever the case
SomeTagContainsForm(lead) ==
    lead.tags # Absent /\ \E i \in DOMAIN lead.tags.items :
        MentionsAny(lead.tags.items[i], {FORM})

\* The source is a record whose name mentions form, website or submission
SourceNameMentions(lead) ==
    /\ lead.source.t = "dict"
    /\ lead.source.name.t = "str"
    /\ MentionsAny(lead.source.name.s, {FORM, WEBSITE, SUBMISSION})

\* A populated field: a record or entry with a non-empty value
PopulatedRecord(r) == r.t = "dict" /\ r.value.t \in {"str", "list"} /\ Truthy(r.value)
PopulatedEntry(e) == IF e.t = "dict" THEN PopulatedRecord(e) ELSE Truthy(e)

\* How many custom fields are populated, in a container of either shape
PopulatedCount(lead) ==
    LET custom_fields == CustomFieldsOf(lead) IN
    IF custom_fields.t = "list"
    THEN Cardinality({i \in DOMAIN custom_fields.items : PopulatedRecord(custom_fields.items[i])})
    ELSE IF custom_fields.t = "mapping"
    THEN Cardinality({k \in DOMAIN custom_fields.map : PopulatedEntry(custom_fields.map[k])})
    ELSE 0

\* How many records of a list-shaped container are populated
PopulatedInList(lead) ==
    IF CustomFieldsOf(lead).t = "list" THEN PopulatedCount(lead) ELSE 0

\* The "Source" custom field is empty or a text (no other truthy value)
SourceFieldIsText(lead) ==
    LET v == FieldValue(lead, "Source") IN Truthy(v) => IsStr(v)

\* The "Source" custom field is a text that mentions form or website
SourceFieldMentions(lead) ==
    LET v == FieldValue(lead, "Source") IN
    IsStr(v) /\ MentionsAny(v.s, {FORM, WEBSITE})

\* One of the three form-indicator custom fields holds something
SomeIndicatorField(lead) ==
    \E name \in {"Revenue Model", "Last year's revenue", "Number of full time employees"} :
        Truthy(FieldValue(lead, name))

\* C3 (as stated): "Form Submission" is returned whenever some tag contains
\* "form", or the source name mentions form, website or submission, or more
\* than five custom fields are populated.
C3_FormWhenAnyCondition ==
    ( /\ source_ret # NotCalled
      /\ \/ SomeTagContainsForm(current_lead)
         \/ SourceNameMentions(current_lead)
         \/ PopulatedCount(current_lead) > 5 )
    => source_ret = Returned("Form Submission")

\* C3 (amended): "Form Submission" is returned whenever some tag contains
\* "form", or the source is a record whose name mentions form, website or
\* submission, or - the "Source" custom field being empty or a text - the
\* custom fields are a list in which more than five records hold a non-empty
\* value.  The entries of a mapping-shaped container are not counted.
C3_FormWhenAnyConditionList ==
    ( /\ source_ret # NotCalled
      /\ \/ SomeTagContainsForm(current_lead)
         \/ SourceNameMentions(current_lead)
         \/ SourceFieldIsText(current_lead) /\ PopulatedInList(current_lead) > 5 )
    => source_ret = Returned("Form Submission")

\* A lead classified as a form submission by its six filled records alone
C3_Witness ==
    /\ source_ret = Returned("Form Submission")
    /\ ~SomeTagContainsForm(current_lead)
    /\ ~SourceNameMentions(current_lead)
    /\ ~SourceFieldMentions(current_lead)
    /\ ~SomeIndicatorField(current_lead)
    /\ PopulatedInList(current_lead) = 6

\* C4 (as stated): "Manually Added" is returned for every lead with no tag
\* containing "form", no source name mentioning form, website or submission,
\* and at most five populated custom fields.
C4_ManualWhenNoneOfThree ==
    ( /\ source_ret # NotCalled
      /\ ~SomeTagContainsForm(current_lead)
      /\ ~SourceNameMentions(current_lead)
      /\ PopulatedCount(current_lead) <= 5 )
    => source_ret = Returned("Manually Added")

\* C4 (amended): when get_lead_source returns, it returns "Manually Added"
\* exactly when none of five conditions holds: the three of C3 (populated
\* records counted in a list only), the "Source" custom field mentioning form
\* or website, and one of the custom fields "Revenue Model", "Last year's
\* revenue", "Number of full time employees" being non-empty; otherwise it
\* returns "Form Submission".  It returns unless the first two conditions
\* fail and the "Source" custom field holds a non-empty value that is no text.
C4_ManualIffNoneOfFive ==
    source_ret # NotCalled =>
        LET early == SomeTagContainsForm(current_lead) \/ SourceNameMentions(current_lead)
            any == \/ early
                   \/ SourceFieldMentions(current_lead)
                   \/ PopulatedInList(current_lead) > 5
                   \/ SomeIndicatorField(current_lead)
        IN  IF ~early /\ ~SourceFieldIsText(current_lead)
            THEN source_ret.t = "raise"
            ELSE source_ret = Returned(IF any THEN "Form Submission" ELSE "Manually Added")

\* A lead with exactly five filled records, classified as manually added
C4_Witness ==
    /\ source_ret = Returned("Manually Added")
    /\ PopulatedInList(current_lead) = 5


(***************************************************************************)
(* Timestamps: format_date, days_in_copper and the date_* fields printed   *)
(* by fetch_recent_leads (list_leads.py)                                   *)
(*                                                                         *)
(* TLC's integers are 32 bits wide, a millisecond epoch is not.  A         *)
(* timestamp is therefore drawn as a multiple of 1000 and held as its      *)
(* thousands k (the number is 1000 * k); an instant or wall-clock reading  *)
(* is a pair [k, r] standing for 1000 * k + r seconds, 0 <= r < 1000.      *)
(***************************************************************************)

Num(k) == [t |-> "num", k |-> k]

\* `timestamp > 1000000000000`, in thousands
MS_THRESHOLD_K == 1000000000

\* datetime.fromtimestamp raises ValueError past 9999-12-31T23:59:59
\* (253402300799 s); for a multiple of 1000 that is k > 253402300
MAX_DATETIME_K == 253402300

SECONDS_PER_DAY == 86400

Time(k, r) == [k |-> k + (r \div 1000), r |-> r % 1000]

\* The host's UTC offset at an instant: a UTC host, or one that observes
\* daylight saving time (America/Vancouver, the rules of 2023 and 2024)
UtcOffset(tz, instant) ==
    IF tz = "UTC" THEN 0
    ELSE LET inDst(a, b) == instant.k >= a \div 1000 /\ instant.k < b \div 1000
         IN  IF inDst(1678615200, 1699174800) \/ inDst(1710064800, 1730624400)
             THEN -25200 ELSE -28800

\* datetime.fromtimestamp(seconds) and datetime.now(): the wall-clock reading
LocalTime(tz, instant) == Time(instant.k, instant.r + UtcOffset(tz, instant))

Now == Time(0, clock.now)

\* timedelta.days of (a - b): the floor of the difference in days.
\* 432000 s are 5 days, so the thousands are taken 432 at a time.
DaysBetween(a, b) ==
    LET dk == a.k - b.k
        dr == a.r - b.r
    IN  5 * (dk \div 432) + (((dk % 432) * 1000 + dr) \div SECONDS_PER_DAY)

\* The shared prefix of format_date and days_in_copper: the instant the code
\* reads from a truthy timestamp, or ValueError from datetime.fromtimestamp
ReadSeconds(timestamp) ==
    IF timestamp.k > MS_THRESHOLD_K
    THEN Time(0, timestamp.k)                  \* timestamp / 1000
    ELSE IF timestamp.k > MAX_DATETIME_K THEN Raised("ValueError")
    ELSE Time(timestamp.k, 0)

Formatted(wall) == [t |-> "date", k |-> wall.k, r |-> wall.r]

\* format_date(timestamp): strftime of the local wall-clock reading
format_date(timestamp) ==
    IF timestamp.t # "num" \/ timestamp.k = 0 THEN Returned("Unknown date")
    ELSE LET seconds == ReadSeconds(timestamp) IN
         IF seconds = Raised("ValueError") THEN Returned("Date format error")
         ELSE Formatted(LocalTime(clock.tz, seconds))

\* days_in_copper(timestamp)
days_in_copper(timestamp) ==
    IF timestamp.t # "num" \/ timestamp.k = 0 THEN Returned("Unknown")
    ELSE LET seconds == ReadSeconds(timestamp) IN
         IF seconds = Raised("ValueError") THEN Returned("Unknown")
         ELSE LET created_date == LocalTime(clock.tz, seconds)
                  current_date == LocalTime(clock.tz, Now)
              IN  [t |-> "days", n |-> DaysBetween(current_date, created_date)]

\* list_leads.py, lines 53-55: a numeric date_* field is formatted as it is;
\* a ValueError leaves the loop for the generic handler, which prints the
\* error, and fetch_recent_leads returns None
print_date_field(value) ==
    IF value.t # "num" THEN Returned("printed as is")
    ELSE IF value.k > MAX_DATETIME_K THEN Raised("ValueError")
    ELSE Formatted(LocalTime(clock.tz, Time(value.k, 0)))

\* Sample inputs: the example of the specification, a summer date, the two
\* sides of the millisecond threshold, a millisecond epoch of the year 1976
TimestampSamples ==
    { None, Num(0) }
    \cup { [t |-> "num", k |-> k, unit |-> "s"] : k \in {1700000, 1688238, 1701388} }
    \cup { [t |-> "num", k |-> k, unit |-> "ms"] :
              k \in {1700000000, 1688238000, 1000001000, 1000000000, 999999999, 200000000} }

NowSamples ==
    { 1700000000, 1700086399, 1700086400, 1701388800, 1701459000, 1701475200, 1688238000 }

TimeZones == {"UTC", "America/Vancouver"}

InitTime ==
    /\ clock \in [now : NowSamples, tz : TimeZones]
    /\ time_call = NotCalled
    /\ time_ret = NotCalled

FormatDate ==
    \E timestamp \in TimestampSamples :
        /\ time_call' = [fn |-> "format_date", timestamp |-> timestamp, at |-> clock.now]
        /\ time_ret' = format_date(timestamp)
        /\ UNCHANGED <<clock, not_time_vars>>

DaysInCopper ==
    \E timestamp \in TimestampSamples :
        /\ time_call' = [fn |-> "days_in_copper", timestamp |-> timestamp, at |-> clock.now]
        /\ time_ret' = days_in_copper(timestamp)
        /\ UNCHANGED <<clock, not_time_vars>>

PrintDateField ==
    \E value \in TimestampSamples :
        /\ time_call' = [fn |-> "fetch_recent_leads", timestamp |-> value, at |-> clock.now]
        /\ time_ret' = print_date_field(value)
        /\ UNCHANGED <<clock, not_time_vars>>

\* The clock moves on between calls
Tick ==
    /\ \E now \in NowSamples : now > clock.now /\ clock' = [clock EXCEPT !.now = now]
    /\ UNCHANGED <<time_call, time_ret, not_time_vars>>

NextTime == FormatDate \/ DaysInCopper \/ PrintDateField \/ Tick


(***************************************************************************)
(* Claims about timestamps                                                 *)
(***************************************************************************)

\* The instant a sampled timestamp stands for, by the unit it is given in
TrueInstant(timestamp) ==
    IF timestamp.unit = "ms" THEN Time(0, timestamp.k) ELSE Time(timestamp.k, 0)

CalledWithTimestamp(fns) ==
    /\ time_call # NotCalled
    /\ time_call.fn \in fns
    /\ time_call.timestamp.t = "num"
    /\ time_call.timestamp.k > 0

\* The unit of a timestamp is the one the code takes it to be in: seconds up
\* to 1e12, milliseconds above (any date after 2001-09-09)
UnitDetected(timestamp) ==
    (timestamp.unit = "ms") <=> (timestamp.k > MS_THRESHOLD_K)

\* C5: days_in_copper(timestamp) is the number of whole days (floor) between
\* the current time and the creation instant, for a timestamp given in
\* seconds and for one given in milliseconds alike.  Stated here for the
\* timestamps whose unit the code detects, where the claim has no excuse.
C5_WholeDaysSinceCreation ==
    ( /\ CalledWithTimestamp({"days_in_copper"})
      /\ UnitDetected(time_call.timestamp) )
    => time_ret = [t |-> "days",
                   n |-> DaysBetween(Time(0, time_call.at),
                                     TrueInstant(time_call.timestamp))]

\* C6: wherever a timestamp is formatted for display - format_date and the
\* date_* fields printed by fetch_recent_leads - a value above 1e12 is
\* divided by 1000 before it is formatted, and a value that is a valid number
\* of seconds is formatted as it is.
C6_MillisecondsConvertedEverywhere ==
    CalledWithTimestamp({"format_date", "fetch_recent_leads"}) =>
        LET k == time_call.timestamp.k IN
        /\ k > MS_THRESHOLD_K =>
              time_ret = Formatted(LocalTime(clock.tz, Time(0, k)))
        /\ k <= MAX_DATETIME_K =>
              time_ret = Formatted(LocalTime(clock.tz, Time(k, 0)))


(***************************************************************************)
(* CRM (HTTP) and SMTP calls.  What the network does is the environment's  *)
(* choice: an HTTP request gets a response or raises, each SMTP step       *)
(* succeeds or raises.  Every operation is a function from that choice to  *)
(* its result, the network steps it performed, and the cache it leaves.    *)
(***************************************************************************)

\* Python's exception classes, each with its base class
BaseOf ==
    [c \in {"SMTPAuthenticationError", "SMTPSenderRefused", "SMTPDataError",
            "SMTPConnectError", "SMTPHeloError"} |-> "SMTPResponseException"]
    @@ [c \in {"SMTPResponseException", "SMTPRecipientsRefused",
               "SMTPServerDisconnected", "SMTPNotSupportedError"} |-> "SMTPException"]
    @@ [c \in {"SMTPException", "gaierror", "TimeoutError", "ConnectionRefusedError",
               "SSLError", "RequestException"} |-> "OSError"]
    @@ [c \in {"requests.ConnectionError", "requests.Timeout", "HTTPError",
               "requests.JSONDecodeError"} |-> "RequestException"]
    @@ [c \in {"OSError", "AttributeError", "RuntimeError"} |-> "Exception"]

\* isinstance(e, base), for an exception of class cls
RECURSIVE IsInstance(_, _)
IsInstance(cls, base) ==
    \/ cls = base
    \/ cls \in DOMAIN BaseOf /\ IsInstance(BaseOf[cls], base)

Exc(class, str) == [class |-> class, str |-> str]
NoExc == [class |-> "none", str |-> <<>>]

\* ---- log records formatted from the credentials ----
MASK_HEAD == 4
MASK_MIN == 8
\* masked_token
MaskedToken(token) ==
    IF Len(token) > MASK_MIN
    THEN SubSeq(token, 1, MASK_HEAD) \o <<".", ".", ".">>
         \o SubSeq(token, Len(token) - MASK_HEAD + 1, Len(token))
    ELSE <<"*", "*", "*">>

\* The records written while the script is loaded
module_records ==
    {<<"Copper Email: ">> \o COPPER_EMAIL,
     <<"Email configuration: Address=">> \o EMAIL_ADDRESS}
    \cup (IF COPPER_API_TOKEN # <<>>
          THEN {<<"Copper API Token (masked): ">> \o MaskedToken(COPPER_API_TOKEN)}
          ELSE {<<"Copper API Token is not set">>})
    \cup (IF EMAIL_PASSWORD # <<>>
          THEN {<<"Email password length: ", "<len(EMAIL_PASSWORD)>", " characters">>}
          ELSE {<<"Email password is not set">>})

\* HEADERS, as logger.info(f"Using headers: {HEADERS}") writes it
fetch_leads_records ==
    {<<"Using headers: {'X-PW-AccessToken': '">> \o COPPER_API_TOKEN
       \o <<"', 'X-PW-UserEmail': '">> \o COPPER_EMAIL \o <<"', ...}">>}

\* ---- HTTP ----
Response(status_code, json) == [t |-> "response", status_code |-> status_code, json |-> json]
InvalidJson == [t |-> "invalid"]
Json(data) == [t |-> "json", data |-> data]

HttpErrors == {"requests.ConnectionError", "requests.Timeout"}
\* a status that is neither 200 nor an error (raise_for_status lets it pass)
ACCEPTED == 202
ErrorStatuses == {401, 404, 500}

\* One request as it appears in the log of network steps
Request(method, url, outcome) ==
    [step |-> method, url |-> url,
     ok |-> outcome.t = "response" /\ outcome.status_code = 200,
     raised |-> IF outcome.t = "raise" THEN Exc(outcome.exc, <<>>) ELSE NoExc,
     response |-> outcome,
     detail |-> <<>>]

ErrorDict(error, detail) == [t |-> "error_dict", error |-> error, detail |-> detail]
EmptyDict == [t |-> "empty_dict"]
Pair(ok, text, exc) == [t |-> "pair", ok |-> ok, message |-> [text |-> text, exc |-> exc]]

Result(ret, log, cache) == [ret |-> ret, log |-> log, cache |-> cache]

\* fetch_leads(): everything is inside the try
fetch_leads(outcome) ==
    LET log == <<Request("GET", "/leads/search", outcome)>> IN
    IF outcome.t = "raise"
    THEN Result(Returned(ErrorDict("str(e)", outcome.exc)), log, <<>>)
    ELSE IF outcome.status_code = 401
    THEN Result(Returned(ErrorDict("authentication error", 401)), log, <<>>)
    ELSE IF outcome.status_code # 200
    THEN Result(Returned(ErrorDict("API error: ", outcome.status_code)), log, <<>>)
    ELSE IF outcome.json = InvalidJson
    THEN Result(Returned(ErrorDict("str(e)", "requests.JSONDecodeError")), log, <<>>)
    ELSE Result(Returned(outcome.json), log, <<>>)

\* definition_map: definition id -> name, a later definition of an id winning
DefinitionMap(definitions) ==
    [id \in {definitions[i].id : i \in DOMAIN definitions} |->
        LET last == CHOOSE i \in DOMAIN definitions :
                        /\ definitions[i].id = id
                        /\ \A j \in DOMAIN definitions : definitions[j].id = id => j <= i
        IN definitions[last].name]

\* fetch_custom_field_definitions(): no try; the cache is FIELD_DEFINITIONS_CACHE
fetch_custom_field_definitions(cache, outcome) ==
    IF cache # None THEN Result(Returned(cache), <<>>, cache)
    ELSE LET log == <<Request("GET", "/custom_field_definitions", outcome)>> IN
         IF outcome.t = "raise" THEN Result(Raised(outcome.exc), log, cache)
         ELSE IF outcome.status_code = 200
         THEN IF outcome.json = InvalidJson
              THEN Result(Raised("requests.JSONDecodeError"), log, cache)
              ELSE LET definition_map == Json(DefinitionMap(outcome.json.data)) IN
                   Result(Returned(definition_map), log, definition_map)
         ELSE Result(Returned(EmptyDict), log, cache)

\* f"{BASE_URL}/leads/{lead_id}"
LeadUrl(lead_id) == "/leads/" \o ToString(lead_id)

\* A variant that stores the {} of a failed request as well
fetch_lead_details_caches_errors(cache, lead_id, outcome) ==
    IF lead_id \in DOMAIN cache THEN Result(Returned(cache[lead_id]), <<>>, cache)
    ELSE LET log == <<Request("GET", LeadUrl(lead_id), outcome)>>
             ret == IF outcome.t = "response" /\ outcome.status_code = 200
                       /\ outcome.json # InvalidJson
                    THEN outcome.json ELSE EmptyDict
         IN  Result(Returned(ret), log,
                    [id \in DOMAIN cache \cup {lead_id} |->
                        IF id = lead_id THEN ret ELSE cache[id]])

\* fetch_lead_details(lead_id): no try; the cache is LEAD_DETAILS_CACHE
fetch_lead_details(cache, lead_id, outcome) ==
    IF lead_id \in DOMAIN cache THEN Result(Returned(cache[lead_id]), <<>>, cache)
    ELSE LET log == <<Request("GET", LeadUrl(lead_id), outcome)>> IN
         IF outcome.t = "raise" THEN Result(Raised(outcome.exc), log, cache)
         ELSE IF outcome.status_code = 200
         THEN IF outcome.json = InvalidJson
              THEN Result(Raised("requests.JSONDecodeError"), log, cache)
              ELSE Result(Returned(outcome.json), log,
                          [id \in DOMAIN cache \cup {lead_id} |->
                              IF id = lead_id THEN outcome.json ELSE cache[id]])
         ELSE Result(Returned(EmptyDict), log, cache)

\* verify_copper_config()
verify_copper_config(outcome) ==
    IF COPPER_API_TOKEN = <<>> \/ COPPER_EMAIL = <<>>
    THEN Result(Returned(Pair(FALSE, "Copper API credentials not configured.", NoExc)), <<>>, <<>>)
    ELSE LET log == <<Request("GET", "/leads/search?page_size=1", outcome)>> IN
         IF outcome.t = "raise"
         THEN Result(Returned(Pair(FALSE,
                                   IF IsInstance(outcome.exc, "RequestException")
                                   THEN "Connection error: " ELSE "Unexpected error: ",
                                   Exc(outcome.exc, <<>>))), log, <<>>)
         ELSE IF outcome.status_code = 401
         THEN Result(Returned(Pair(FALSE, "Authentication failed with Copper API.", NoExc)), log, <<>>)
         ELSE IF outcome.status_code # 200
         THEN Result(Returned(Pair(FALSE, "API error: ", NoExc)), log, <<>>)
         ELSE Result(Returned(Pair(TRUE, "Copper API configuration verified successfully!", NoExc)), log, <<>>)

\* ---- SMTP ----
SMTP_SERVER == "smtp.gmail.com:587"
NoFault == [step |-> "none", exc |-> NoExc]

\* The SMTP calls of send_email and of test_email_connection, in program order
SEND_STEPS_login_before_tls == <<"connect", "login", "starttls", "sendmail", "quit">>
SEND_STEPS == <<"connect", "starttls", "login", "sendmail", "quit">>
TEST_STEPS == <<"connect", "starttls", "login", "quit">>

SmtpStep(step, fault, detail) ==
    [step |-> step, url |-> SMTP_SERVER, ok |-> fault.step # step,
     raised |-> IF fault.step = step THEN fault.exc ELSE NoExc,
     detail |-> IF step = "sendmail" THEN detail ELSE <<>>]

\* A variant that goes on with the remaining calls after one has raised
RECURSIVE RunSteps_keeps_going(_, _, _)
RunSteps_keeps_going(steps, fault, detail) ==
    IF steps = <<>> THEN <<>>
    ELSE <<SmtpStep(Head(steps), fault, detail)>>
         \o RunSteps_keeps_going(Tail(steps), fault, detail)

\* The calls inside the try block: the first one that raises ends the block
RECURSIVE RunSteps(_, _, _)
RunSteps(steps, fault, detail) ==
    IF steps = <<>> THEN <<>>
    ELSE IF fault.step = Head(steps)
    THEN <<SmtpStep(Head(steps), fault, detail)>>
    ELSE <<SmtpStep(Head(steps), fault, detail)>> \o RunSteps(Tail(steps), fault, detail)

\* The exception that left the try block, NoExc when none did
RaisedIn(log) ==
    IF \E i \in DOMAIN log : ~log[i].ok
    THEN log[CHOOSE i \in DOMAIN log : ~log[i].ok /\ \A j \in DOMAIN log : ~log[j].ok => i <= j].raised
    ELSE NoExc

CODE_535 == <<"5", "3", "5">>
APP_PASSWORD_GUIDANCE == "Authentication failed with Gmail. This is likely because: ... App Password ..."

\* A variant whose clause for SMTPException comes first
send_email_except_smtp_first(e) ==
    IF IsInstance(e.class, "SMTPException") THEN Pair(FALSE, "SMTP error: ", e)
    ELSE Pair(FALSE, "Failed to send email: ", e)

\* The except clauses of send_email, in order
send_email_except(e) ==
    IF IsInstance(e.class, "SMTPAuthenticationError")
    THEN IF Contains(e.str, CODE_535)
         THEN Pair(FALSE, APP_PASSWORD_GUIDANCE, NoExc)
         ELSE Pair(FALSE, "Authentication failed: ", e)
    ELSE IF IsInstance(e.class, "SMTPSenderRefused") THEN Pair(FALSE, "Sender refused: ", e)
    ELSE IF IsInstance(e.class, "SMTPRecipientsRefused") THEN Pair(FALSE, "Recipient(s) refused: ", e)
    ELSE IF IsInstance(e.class, "SMTPException") THEN Pair(FALSE, "SMTP error: ", e)
    ELSE Pair(FALSE, "Failed to send email: ", e)

\* msg: the headers of the MIMEMultipart message (the Cc header is set only
\* for a truthy cc_email)
Message(recipient_email, cc_email) ==
    IF Truthy(cc_email)
    THEN [From |-> EMAIL_ADDRESS, To |-> recipient_email, Subject |-> "subject",
          Cc |-> cc_email.s]
    ELSE [From |-> EMAIL_ADDRESS, To |-> recipient_email, Subject |-> "subject"]

\* A variant that leaves the CC address out of the envelope
SendmailRecipients_to_only(recipient_email, cc_email) == <<recipient_email>>

\* recipients: the envelope recipient list passed to sendmail
SendmailRecipients(recipient_email, cc_email) ==
    IF Truthy(cc_email) THEN <<recipient_email, cc_email.s>> ELSE <<recipient_email>>

\* send_email(recipient_email, subject, body, cc_email)
send_email(recipient_email, cc_email, fault) ==
    IF EMAIL_ADDRESS = <<>> \/ EMAIL_PASSWORD = <<>>
    THEN Result(Returned(Pair(FALSE, "Email credentials not configured.", NoExc)), <<>>, <<>>)
    ELSE IF recipient_email = <<>>
    THEN Result(Returned(Pair(FALSE, "No recipient email provided", NoExc)), <<>>, <<>>)
    ELSE LET recipients == SendmailRecipients(recipient_email, cc_email)
             msg == Message(recipient_email, cc_email)
             log == RunSteps(SEND_STEPS, fault,
                             [from_addr |-> EMAIL_ADDRESS, to_addrs |-> recipients, msg |-> msg])
         IN IF RaisedIn(log) # NoExc
            THEN Result(Returned(send_email_except(RaisedIn(log))), log, <<>>)
            ELSE Result(Returned(Pair(TRUE, "Email sent successfully!", NoExc)), log, <<>>)

\* test_email_connection()
test_email_connection(fault) ==
    IF EMAIL_ADDRESS = <<>> \/ EMAIL_PASSWORD = <<>>
    THEN Result(Returned(Pair(FALSE, "Email credentials not configured.", NoExc)), <<>>, <<>>)
    ELSE LET log == RunSteps(TEST_STEPS, fault, <<>>) IN
         IF RaisedIn(log) = NoExc
         THEN Result(Returned(Pair(TRUE, "Email connection successful!", NoExc)), log, <<>>)
         ELSE IF IsInstance(RaisedIn(log).class, "SMTPAuthenticationError")
         THEN Result(Returned(Pair(FALSE, "Authentication failed: ", RaisedIn(log))), log, <<>>)
         ELSE Result(Returned(Pair(FALSE, "Connection failed: ", RaisedIn(log))), log, <<>>)

\* ---- what the environment may answer ----
LeadIds == {1, 2}
LeadsPayloads == {Json(<<>>), Json(<<[id |-> 1], [id |-> 2]>>)}
DetailsPayloads(lead_id) ==
    {Json([id |-> lead_id, name |-> n]) : n \in {"as first stored", "as edited later"}}
DefinitionsPayloads ==
    {Json(<<>>),
     Json(<<[id |-> 1, name |-> "Source"], [id |-> 2, name |-> "Company"]>>),
     Json(<<[id |-> 1, name |-> "Source"], [id |-> 1, name |-> "Lead Source"]>>)}

HttpOutcomes(payloads) ==
    {Response(200, json) : json \in payloads \cup {InvalidJson}}
    \cup {Response(status_code, InvalidJson) : status_code \in ErrorStatuses}
    \cup {Response(ACCEPTED, json) : json \in payloads}
    \cup {Raised(exc) : exc \in HttpErrors}

Str535 == <<"(", "5", "3", "5", ",", " ", "b", "a", "d", ")">>
Str534 == <<"(", "5", "3", "4", ",", " ", "w", "e", "b", ")">>

\* What each smtplib call is documented to raise, plus socket-level errors
StepErrors(step) ==
    CASE step = "connect" ->
            {Exc("gaierror", <<>>), Exc("TimeoutError", <<>>), Exc("SMTPConnectError", <<>>)}
      [] step = "starttls" ->
            {Exc("SMTPNotSupportedError", <<>>), Exc("SSLError", <<>>)}
      [] step = "login" ->
            {Exc("SMTPAuthenticationError", Str535), Exc("SMTPAuthenticationError", Str534),
             Exc("SMTPServerDisconnected", <<>>)}
      [] step = "sendmail" ->
            {Exc("SMTPSenderRefused", <<>>), Exc("SMTPRecipientsRefused", <<>>),
             Exc("SMTPDataError", <<>>), Exc("TimeoutError", <<>>)}
      [] step = "quit" ->
            {Exc("SMTPServerDisconnected", <<>>)}

Faults(steps) ==
    {NoFault} \cup UNION {{[step |-> steps[i], exc |-> e] : e \in StepErrors(steps[i])}
                          : i \in DOMAIN steps}

TheAddress == <<"m", "i", "k", "e", "w", "@", "a", "i", ".", "c", "a">>
Recipients == {<<>>, <<"l", "e", "a", "d", "@", "x">>}
CcAddresses == {None, Str(<<>>), Str(<<"c", "c", "@", "x">>)}

\* no token, one of at most eight characters, a longer one
TokenSamples ==
    {<<>>, <<"k", "e", "y">>, <<"t", "o", "k", "e", "n", "1", "2", "3", "4", "5">>}

\* What the environment may hold: everything set, or one variable missing
\* (os.getenv gives "" then), or a token too short to be masked
NetConfigurations ==
    LET all == [token |-> <<"t", "o", "k", "e", "n", "1", "2", "3", "4", "5">>,
                copper_email |-> TheAddress,
                address |-> TheAddress, password |-> <<"app password">>]
    IN  {all, [all EXCEPT !.copper_email = <<>>], [all EXCEPT !.address = <<>>],
         [all EXCEPT !.password = <<>>]}
        \cup {[all EXCEPT !.token = token] : token \in TokenSamples}

InitNet ==
    /\ EMAIL_TEMPLATES = DefaultTemplates
    /\ gen_args = NotCalled
    /\ email_content = NotCalled
    /\ \E c \in NetConfigurations :
          /\ COPPER_API_TOKEN = c.token
          /\ COPPER_EMAIL = c.copper_email
          /\ EMAIL_ADDRESS = c.address
          /\ EMAIL_PASSWORD = c.password
    /\ LEAD_DETAILS_CACHE = <<>>
    /\ FIELD_DEFINITIONS_CACHE = None
    /\ net_call = NotCalled
    /\ net_ret = NotCalled
    /\ net_log = <<>>
    /\ log_records = module_records

\* One call of an operation: its result, its network steps, the cache it leaves
Called(call, result) ==
    /\ net_call' = call
    /\ net_ret' = result.ret
    /\ net_log' = result.log

FetchLeads ==
    \E outcome \in HttpOutcomes(LeadsPayloads) :
        /\ Called([fn |-> "fetch_leads"], fetch_leads(outcome))
        /\ log_records' = log_records \cup fetch_leads_records
        /\ UNCHANGED <<config_vars, cache_vars, not_net_vars>>

FetchCustomFieldDefinitions ==
    \E outcome \in HttpOutcomes(DefinitionsPayloads) :
        LET result == fetch_custom_field_definitions(FIELD_DEFINITIONS_CACHE, outcome) IN
        /\ Called([fn |-> "fetch_custom_field_definitions"], result)
        /\ FIELD_DEFINITIONS_CACHE' = result.cache
        /\ UNCHANGED <<log_records, config_vars, LEAD_DETAILS_CACHE, not_net_vars>>

FetchLeadDetails ==
    \E lead_id \in LeadIds : \E outcome \in HttpOutcomes(DetailsPayloads(lead_id)) :
        LET result == fetch_lead_details(LEAD_DETAILS_CACHE, lead_id, outcome) IN
        /\ Called([fn |-> "fetch_lead_details", lead_id |-> lead_id], result)
        /\ LEAD_DETAILS_CACHE' = result.cache
        /\ UNCHANGED <<log_records, config_vars, FIELD_DEFINITIONS_CACHE, not_net_vars>>

VerifyCopperConfig ==
    \E outcome \in HttpOutcomes(LeadsPayloads) :
        /\ Called([fn |-> "verify_copper_config"], verify_copper_config(outcome))
        /\ UNCHANGED <<log_records, config_vars, cache_vars, not_net_vars>>

SendEmail ==
    \E recipient_email \in Recipients, cc_email \in CcAddresses, fault \in Faults(SEND_STEPS) :
        /\ Called([fn |-> "send_email", recipient_email |-> recipient_email,
                   cc_email |-> cc_email],
                  send_email(recipient_email, cc_email, fault))
        /\ UNCHANGED <<log_records, config_vars, cache_vars, not_net_vars>>

TestEmailConnection ==
    \E fault \in Faults(TEST_STEPS) :
        /\ Called([fn |-> "test_email_connection"], test_email_connection(fault))
        /\ UNCHANGED <<log_records, config_vars, cache_vars, not_net_vars>>

NextNet ==
    \/ FetchLeads
    \/ FetchCustomFieldDefinitions
    \/ FetchLeadDetails
    \/ VerifyCopperConfig
    \/ SendEmail
    \/ TestEmailConnection

(***************************************************************************)
(* The dashboard.  Streamlit executes the script from its first line on    *)
(* every interaction with the page (and again when st.rerun() is called):  *)
(* one script run is one step.  The module-level statements run again in   *)
(* each run; st.session_state is what lasts from one run to the next.  The *)
(* body of a `with st.expander(...)` block is executed in every run,       *)
(* whether the expander is open in the browser or not.                     *)
(***************************************************************************)
Dict(map) == [t |-> "session_dict", map |-> map]

Put(f, key, value) == [k \in DOMAIN f \cup {key} |-> IF k = key THEN value ELSE f[k]]
Remove(f, key) == [k \in DOMAIN f \ {key} |-> f[k]]

EmailObj(email) == [t |-> "dict", email |-> email]
NoFields ==
    [name |-> Absent, company_name |-> Absent, email |-> Absent, emails |-> Absent,
     contact_info |-> Absent]

\* The keys of a lead-details dictionary ({} has none)
LeadFields(lead_details) == IF lead_details = EmptyDict THEN NoFields ELSE lead_details.data

\* isinstance(x, dict) and "email" in x
HasEmailKey(x) == x.t = "dict" /\ x.email # Absent

\* get_email_from_lead(lead_details)
get_email_from_lead(lead_details) ==
    LET fields == LeadFields(lead_details)
        emails == fields.emails
        carrying == IF emails.t = "list"
                    THEN {i \in DOMAIN emails.items : HasEmailKey(emails.items[i])}
                    ELSE {}
    IN  IF HasEmailKey(fields.email) THEN fields.email.email
        ELSE IF carrying # {}
        THEN emails.items[CHOOSE i \in carrying : \A j \in carrying : i <= j].email
        ELSE IF HasEmailKey(fields.contact_info) THEN fields.contact_info.email
        ELSE Str(<<>>)

\* The lead_data generate_rejection_email reads
LeadData(lead_details) ==
    [name |-> LeadFields(lead_details).name,
     company_name |-> LeadFields(lead_details).company_name]

\* LEAD_DETAILS_CACHE and FIELD_DEFINITIONS_CACHE as a variant that keeps
\* them from one script run to the next
module_globals_kept == [cache |-> LEAD_DETAILS_CACHE, defs |-> FIELD_DEFINITIONS_CACHE]

\* LEAD_DETAILS_CACHE = {} and FIELD_DEFINITIONS_CACHE = None, executed at
\* the start of every script run
module_globals == [cache |-> <<>>, defs |-> None]

\* The state of a script run when main() is entered
StartRun ==
    [cache |-> module_globals.cache,
     defs |-> module_globals.defs,
     selected |-> IF selected_leads = Absent THEN Dict(<<>>) ELSE selected_leads,
     email_cache |-> IF email_cache = Absent THEN Dict(<<>>) ELSE email_cache,
     log |-> <<>>,
     records |-> module_records,
     messages |-> {},
     leads_result |-> NotCalled,
     rendered |-> {},
     drafts |-> <<>>,
     send |-> NotCalled,
     stop |-> "no"]

NoClick == [widget |-> "none"]

\* The "Test Email Connection" and "Verify Copper API" buttons of the sidebar
SidebarButtons(r, click, env) ==
    IF click.widget = "test_connection"
    THEN LET steps == RunSteps(TEST_STEPS, env.smtp, <<>>) IN
         [r EXCEPT !.log = @ \o steps,
                   !.messages = @ \cup {IF RaisedIn(steps) = NoExc
                                        THEN "Connection successful!"
                                        ELSE "Connection failed: "}]
    ELSE IF click.widget = "verify_copper"
    THEN LET result == verify_copper_config(env.verify) IN
         [r EXCEPT !.log = @ \o result.log,
                   !.messages = @ \cup {result.ret.v.message.text}]
    ELSE r

\* The "Refresh Leads" button
RefreshLeads(r, click) ==
    IF click.widget = "refresh"
    THEN [r EXCEPT !.cache = <<>>, !.email_cache = Absent, !.stop = "rerun"]
    ELSE r

\* leads_result = fetch_leads() and the two early returns of main
LoadLeads(r, env) ==
    IF r.stop # "no" THEN r
    ELSE LET result == fetch_leads(env.leads)
             leads_result == result.ret.v
             r1 == [r EXCEPT !.log = @ \o result.log,
                             !.records = @ \cup fetch_leads_records,
                             !.leads_result = leads_result]
         IN  IF leads_result.t = "error_dict"
             THEN [r1 EXCEPT !.messages = @ \cup {"Error fetching leads from Copper: "},
                             !.stop = "return"]
             ELSE IF leads_result.data = <<>>
             THEN [r1 EXCEPT !.messages = @ \cup {"No leads found in Copper CRM."},
                             !.stop = "return"]
             ELSE r1

\* field_definitions = fetch_custom_field_definitions()
LoadDefinitions(r, env) ==
    IF r.stop # "no" THEN r
    ELSE LET result == fetch_custom_field_definitions(r.defs, env.defs)
             r1 == [r EXCEPT !.log = @ \o result.log, !.defs = result.cache]
         IN  IF result.ret.t = "raise" THEN [r1 EXCEPT !.stop = result.ret.exc]
             ELSE IF result.ret.v = EmptyDict
             THEN [r1 EXCEPT !.messages = @ \cup {"Error fetching custom field definitions: "}]
             ELSE r1

\* The "Field ID Mapping Tool" page: with its checkbox ticked the run ends
\* there; its button issues a request of its own, outside any try
MappingTool(r, click, env) ==
    IF click.widget # "mapping_tool" THEN r
    ELSE IF ~click.fetch THEN [r EXCEPT !.stop = "return"]
    ELSE LET log == <<Request("GET", "/custom_field_definitions", env.defs)>>
             r1 == [r EXCEPT !.log = @ \o log]
         IN  IF env.defs.t = "raise" THEN [r1 EXCEPT !.stop = env.defs.exc]
             ELSE IF env.defs.status_code # 200
             THEN [r1 EXCEPT !.messages = @ \cup {"Error fetching custom field definitions: "},
                             !.stop = "return"]
             ELSE IF env.defs.json = InvalidJson
             THEN [r1 EXCEPT !.stop = "requests.JSONDecodeError"]
             ELSE [r1 EXCEPT !.messages = @ \cup {"Found custom field definitions in Copper."},
                             !.stop = "return"]

\* A variant of the "Send Email" button that goes on to send_email whatever
\* the verification connection did
SendEmailButton_unverified(r, lead_id, recipient_email, click, env) ==
    IF ~Truthy(recipient_email)
    THEN [r EXCEPT !.messages = @ \cup {"No recipient email address found for this lead."}]
    ELSE IF EMAIL_ADDRESS = <<>> \/ EMAIL_PASSWORD = <<>>
    THEN [r EXCEPT !.messages = @ \cup {"Email credentials not configured."}]
    ELSE LET verification == RunSteps(TEST_STEPS, env.smtp, <<>>)
             result == send_email(recipient_email.s, click.cc_email, env.send)
             success == result.ret.v.ok
         IN  [r EXCEPT !.log = @ \o verification \o result.log,
                       !.send = [lead_id |-> lead_id,
                                 recipient_email |-> recipient_email.s,
                                 cc_email |-> click.cc_email,
                                 ret |-> result.ret.v],
                       !.selected = IF success THEN Dict(Remove(@.map, lead_id)) ELSE @,
                       !.messages = @ \cup {IF success THEN "Email sent to "
                                            ELSE result.ret.v.message.text}]

\* A variant of the "Send Email" button that drops the lead from
\* selected_leads whether or not the email went out
SendEmailButton_always_removes(r, lead_id, recipient_email, click, env) ==
    IF ~Truthy(recipient_email)
    THEN [r EXCEPT !.messages = @ \cup {"No recipient email address found for this lead."}]
    ELSE IF EMAIL_ADDRESS = <<>> \/ EMAIL_PASSWORD = <<>>
    THEN [r EXCEPT !.messages = @ \cup {"Email credentials not configured."}]
    ELSE LET verification == RunSteps(TEST_STEPS, env.smtp, <<>>) IN
         IF RaisedIn(verification) # NoExc
         THEN [r EXCEPT !.log = @ \o verification,
                        !.messages = @ \cup {"Failed to connect to email server: "}]
         ELSE LET result == send_email(recipient_email.s, click.cc_email, env.send)
                  success == result.ret.v.ok
              IN  [r EXCEPT !.log = @ \o verification \o result.log,
                            !.send = [lead_id |-> lead_id,
                                      recipient_email |-> recipient_email.s,
                                      cc_email |-> click.cc_email,
                                      ret |-> result.ret.v],
                            !.selected = Dict(Remove(@.map, lead_id)),
                            !.messages = @ \cup {IF success THEN "Email sent to "
                                                 ELSE result.ret.v.message.text}]

\* The "Send Email" button of a lead's draft
SendEmailButton(r, lead_id, recipient_email, click, env) ==
    IF ~Truthy(recipient_email)
    THEN [r EXCEPT !.messages = @ \cup {"No recipient email address found for this lead."}]
    ELSE IF EMAIL_ADDRESS = <<>> \/ EMAIL_PASSWORD = <<>>
    THEN [r EXCEPT !.messages = @ \cup {"Email credentials not configured."}]
    ELSE LET verification == RunSteps(TEST_STEPS, env.smtp, <<>>) IN
         IF RaisedIn(verification) # NoExc
         THEN [r EXCEPT !.log = @ \o verification,
                        !.messages = @ \cup {"Failed to connect to email server: "}]
         ELSE LET result == send_email(recipient_email.s, click.cc_email, env.send)
                  success == result.ret.v.ok
              IN  [r EXCEPT !.log = @ \o verification \o result.log,
                            !.send = [lead_id |-> lead_id,
                                      recipient_email |-> recipient_email.s,
                                      cc_email |-> click.cc_email,
                                      ret |-> result.ret.v],
                            !.selected = IF success THEN Dict(Remove(@.map, lead_id)) ELSE @,
                            !.messages = @ \cup {IF success THEN "Email sent to "
                                                 ELSE result.ret.v.message.text}]

\* A variant of the draft section that reruns on a changed reason without
\* storing it
DraftSection_keeps_reason(r, lead_id, lead_details, click, env) ==
    LET current_reason == r.selected.map[lead_id].reason
        mine == click.widget \in {"reason", "send", "cancel"} /\ click.lead_id = lead_id
        selected_reason == IF mine /\ click.widget = "reason" THEN click.reason
                           ELSE current_reason
    IN  IF current_reason \notin ReasonKeys THEN [r EXCEPT !.stop = "ValueError"]
        ELSE IF selected_reason # current_reason
        THEN [r EXCEPT !.email_cache = Dict(Remove(@.map, <<lead_id, current_reason>>)),
                       !.stop = "rerun"]
        ELSE LET body == generate_rejection_email(LeadData(lead_details), selected_reason)
                 recipient_email == get_email_from_lead(lead_details)
                 r1 == [r EXCEPT !.drafts = Put(@, lead_id, [reason |-> selected_reason,
                                                             body |-> body])]
                 r2 == IF mine /\ click.widget = "send"
                       THEN SendEmailButton(r1, lead_id, recipient_email, click, env)
                       ELSE r1
             IN  IF mine /\ click.widget = "cancel"
                 THEN [r2 EXCEPT !.selected = Dict(Remove(@.map, lead_id)), !.stop = "rerun"]
                 ELSE r2

\* The draft of a selected lead: reason selectbox, generated body, the Send
\* Email and Cancel buttons
DraftSection(r, lead_id, lead_details, click, env) ==
    LET current_reason == r.selected.map[lead_id].reason
        mine == click.widget \in {"reason", "send", "cancel"} /\ click.lead_id = lead_id
        selected_reason == IF mine /\ click.widget = "reason" THEN click.reason
                           ELSE current_reason
    IN  IF current_reason \notin ReasonKeys THEN [r EXCEPT !.stop = "ValueError"]
        ELSE IF selected_reason # current_reason
        THEN [r EXCEPT !.selected = Dict([@.map EXCEPT ![lead_id].reason = selected_reason]),
                       !.email_cache = Dict(Remove(@.map, <<lead_id, current_reason>>)),
                       !.stop = "rerun"]
        ELSE LET body == generate_rejection_email(LeadData(lead_details), selected_reason)
                 recipient_email == get_email_from_lead(lead_details)
                 r1 == [r EXCEPT !.drafts = Put(@, lead_id, [reason |-> selected_reason,
                                                             body |-> body])]
                 r2 == IF mine /\ click.widget = "send"
                       THEN SendEmailButton(r1, lead_id, recipient_email, click, env)
                       ELSE r1
             IN  IF mine /\ click.widget = "cancel"
                 THEN [r2 EXCEPT !.selected = Dict(Remove(@.map, lead_id)), !.stop = "rerun"]
                 ELSE r2

\* A variant of the "Draft Email" button that selects the lead with the
\* default template type of generate_rejection_email
RenderLead_selects_standard(r, lead_id, click, env) ==
    LET result == fetch_lead_details(r.cache, lead_id, env.details[lead_id])
        r1 == [r EXCEPT !.log = @ \o result.log, !.cache = result.cache]
    IN  IF result.ret.t = "raise" THEN [r1 EXCEPT !.stop = result.ret.exc]
        ELSE LET lead_details == result.ret.v
                 r2 == [r1 EXCEPT !.rendered = @ \cup {lead_id}]
             IN  IF click.widget = "draft" /\ click.lead_id = lead_id
                 THEN [r2 EXCEPT !.selected =
                                    Dict(Put(@.map, lead_id, [lead_details |-> lead_details,
                                                              reason |-> "standard"])),
                                 !.stop = "rerun"]
                 ELSE IF lead_id \in DOMAIN r2.selected.map
                 THEN DraftSection(r2, lead_id, lead_details, click, env)
                 ELSE r2

\* The body of one lead's expander
RenderLead(r, lead_id, click, env) ==
    LET result == fetch_lead_details(r.cache, lead_id, env.details[lead_id])
        r1 == [r EXCEPT !.log = @ \o result.log, !.cache = result.cache]
    IN  IF result.ret.t = "raise" THEN [r1 EXCEPT !.stop = result.ret.exc]
        ELSE LET lead_details == result.ret.v
                 r2 == [r1 EXCEPT !.rendered = @ \cup {lead_id}]
             IN  IF click.widget = "draft" /\ click.lead_id = lead_id
                 THEN [r2 EXCEPT !.selected =
                                    Dict(Put(@.map, lead_id, [lead_details |-> lead_details,
                                                              reason |-> "general"])),
                                 !.stop = "rerun"]
                 ELSE IF lead_id \in DOMAIN r2.selected.map
                 THEN DraftSection(r2, lead_id, lead_details, click, env)
                 ELSE r2

\* for lead in filtered_leads (the search box left empty)
RECURSIVE RenderLeads(_, _, _, _)
RenderLeads(r, leads, click, env) ==
    IF r.stop # "no" \/ leads = <<>> THEN r
    ELSE RenderLeads(RenderLead(r, Head(leads).id, click, env), Tail(leads), click, env)

\* One run of the script for one interaction
RunScript(click, env) ==
    LET r1 == MappingTool(StartRun, click, env)
        r2 == IF r1.stop # "no" THEN r1 ELSE SidebarButtons(r1, click, env)
        r3 == IF r2.stop # "no" THEN r2 ELSE RefreshLeads(r2, click)
        r4 == LoadLeads(r3, env)
        r5 == LoadDefinitions(r4, env)
    IN  IF r5.stop # "no" THEN r5 ELSE RenderLeads(r5, r5.leads_result.data, click, env)

\* ---- the command-line scripts ----
\* response.raise_for_status() raises HTTPError from this status on
HTTP_ERROR_FROM == 400

\* A variant without response.raise_for_status()
fetch_recent_leads_unchecked(outcome) ==
    LET log == <<Request("POST", "/leads/search", outcome)>> IN
    IF outcome.t = "raise" \/ outcome.json = InvalidJson
    THEN Result(Returned(None), log, <<>>)
    ELSE Result(Returned(outcome.json), log, <<>>)

\* fetch_recent_leads() of list_leads.py: every except clause prints and
\* falls through to `return None`
fetch_recent_leads(outcome) ==
    LET log == <<Request("POST", "/leads/search", outcome)>> IN
    IF outcome.t = "raise" THEN Result(Returned(None), log, <<>>)
    ELSE IF outcome.status_code >= HTTP_ERROR_FROM THEN Result(Returned(None), log, <<>>)
    ELSE IF outcome.json = InvalidJson THEN Result(Returned(None), log, <<>>)
    ELSE LET leads == outcome.json.data IN
         IF leads = <<>> THEN Result(Returned(List(<<>>)), log, <<>>)
         ELSE IF \E i \in DOMAIN leads : print_date_field(leads[i].date_created).t = "raise"
         THEN Result(Returned(None), log, <<>>)
         ELSE Result(Returned(outcome.json), log, <<>>)

\* fetch_activity_logs() of allfields.py: no try
fetch_activity_logs(outcome) ==
    LET log == <<Request("POST", "/activities/search", outcome)>> IN
    IF outcome.t = "raise" THEN Result(Raised(outcome.exc), log, <<>>)
    ELSE IF outcome.status_code = 200
    THEN IF outcome.json = InvalidJson
         THEN Result(Raised("requests.JSONDecodeError"), log, <<>>)
         ELSE IF outcome.json.data = <<>> THEN Result(Returned(List(<<>>)), log, <<>>)
         ELSE Result(Returned(outcome.json), log, <<>>)
    ELSE Result(Returned(List(<<>>)), log, <<>>)

\* get_opportunity_details() of customfields.py: no try
get_opportunity_details(outcome) ==
    LET log == <<Request("GET", "/opportunities/33762876", outcome)>> IN
    IF outcome.t = "raise" THEN Result(Raised(outcome.exc), log, <<>>)
    ELSE IF outcome.status_code = 200
    THEN IF outcome.json = InvalidJson
         THEN Result(Raised("requests.JSONDecodeError"), log, <<>>)
         ELSE Result(Returned(outcome.json), log, <<>>)
    ELSE Result(Returned(None), log, <<>>)

RecentLeadsPayloads ==
    {Json(<<>>),
     Json(<<[id |-> 1, date_created |-> Num(1700000)]>>),
     Json(<<[id |-> 2, date_created |-> Num(1000001000)]>>)}
ActivitiesPayloads == {Json(<<>>), Json(<<[type |-> "note"]>>)}
OpportunityPayloads == {Json([id |-> 33762876])}
\* What the scripts may be answered: as the dashboard, or an error status
\* whose body is the CRM's JSON error object
ScriptOutcomes(payloads) ==
    HttpOutcomes(payloads)
    \cup {Response(status_code, Json([message |-> "error"])) : status_code \in ErrorStatuses}

\* ---- what the operator and the environment may do ----
UiDetails(lead_id) ==
    Json([id |-> lead_id, name |-> Str(<<"Ann Lee">>), company_name |-> Str(<<"Acme">>),
          email |-> IF lead_id = 1 THEN EmailObj(Str(<<"l", "e", "a", "d", "@", "x">>))
                    ELSE Absent,
          emails |-> IF lead_id = 1 THEN Absent ELSE List(<<>>),
          contact_info |-> Absent])

\* Every request answered 200, every SMTP call succeeding
AllOk ==
    [leads |-> Response(200, Json(<<[id |-> 1], [id |-> 2]>>)),
     defs |-> Response(200, Json(<<[id |-> 1, name |-> "Source"]>>)),
     details |-> [id \in LeadIds |-> Response(200, UiDetails(id))],
     verify |-> Response(200, Json(<<>>)),
     smtp |-> NoFault,
     send |-> NoFault]

Failures == {Response(500, InvalidJson), Raised("requests.ConnectionError")}

\* The CRM's answers during one run: at most one request goes wrong
HttpEnvs ==
    {AllOk}
    \cup {[AllOk EXCEPT !.leads = o] :
            o \in Failures \cup {Response(401, InvalidJson), Response(200, Json(<<>>)),
                                 Response(ACCEPTED, AllOk.leads.json)}}
    \cup {[AllOk EXCEPT !.defs = o] : o \in Failures}
    \cup {[AllOk EXCEPT !.details[id] = o] : id \in LeadIds, o \in Failures}

\* The CRM's answers during a run that follows a click on "Send Email"
SendEnvs ==
    {AllOk, [AllOk EXCEPT !.leads = Response(500, InvalidJson)],
     [AllOk EXCEPT !.details[1] = Raised("requests.ConnectionError")]}

LoginFault == [step |-> "login", exc |-> Exc("SMTPAuthenticationError", Str535)]
SendmailFault == [step |-> "sendmail", exc |-> Exc("SMTPRecipientsRefused", <<>>)]

\* The leads whose expander the operator opens or closes
Openable == {1}
ReasonPicks == {"general", "hardware"}
CcPicks == {Str(<<>>), Str(<<"c", "c", "@", "x">>)}

Configurations ==
    {[token |-> <<"t", "o", "k", "e", "n", "1", "2", "3", "4", "5">>,
      address |-> TheAddress, password |-> <<"app password">>, templates |-> FileStoreAll],
     [token |-> <<>>, address |-> <<>>, password |-> <<>>, templates |-> DefaultTemplates]}

InitUi ==
    /\ \E c \in Configurations :
          /\ COPPER_API_TOKEN = c.token
          /\ EMAIL_ADDRESS = c.address
          /\ EMAIL_PASSWORD = c.password
          /\ EMAIL_TEMPLATES = c.templates
    /\ COPPER_EMAIL = TheAddress
    /\ gen_args = NotCalled
    /\ email_content = NotCalled
    /\ LEAD_DETAILS_CACHE = <<>>
    /\ FIELD_DEFINITIONS_CACHE = None
    /\ net_call = NotCalled
    /\ net_ret = NotCalled
    /\ net_log = <<>>
    /\ log_records = {}
    /\ selected_leads = Absent
    /\ email_cache = Absent
    /\ screen = NotCalled
    /\ pending_rerun = FALSE
    /\ opened = {}

\* What a script run leaves behind
Ran(click, r) ==
    /\ net_call' = [fn |-> "main", click |-> click]
    /\ net_log' = r.log
    /\ net_ret' = IF r.stop = "rerun" THEN [t |-> "rerun"]
                  ELSE IF r.stop \in {"no", "return"} THEN Returned(None)
                  ELSE Raised(r.stop)
    /\ log_records' = log_records \cup r.records
    /\ LEAD_DETAILS_CACHE' = r.cache
    /\ FIELD_DEFINITIONS_CACHE' = r.defs
    /\ selected_leads' = r.selected
    /\ email_cache' = r.email_cache
    /\ screen' = [page |-> IF click.widget = "mapping_tool" THEN "mapping_tool" ELSE "main",
                  messages |-> r.messages, leads_result |-> r.leads_result,
                  rendered |-> r.rendered, drafts |-> r.drafts, send |-> r.send]
    /\ pending_rerun' = (r.stop = "rerun")
    /\ UNCHANGED <<email_vars, field_vars, time_vars, config_vars, opened>>

OnMainPage == ~pending_rerun /\ screen # NotCalled /\ screen.page = "main"

\* The operator opens or reloads the page
Load ==
    /\ ~pending_rerun
    /\ \E env \in HttpEnvs : \E r \in {RunScript(NoClick, env)} : Ran(NoClick, r)

\* The script runs again after st.rerun()
Rerun ==
    /\ pending_rerun
    /\ \E env \in HttpEnvs : \E r \in {RunScript(NoClick, env)} : Ran(NoClick, r)

ClickTestConnection ==
    /\ OnMainPage
    /\ \E fault \in {NoFault, LoginFault} :
          LET click == [widget |-> "test_connection"] IN
          \E r \in {RunScript(click, [AllOk EXCEPT !.smtp = fault])} : Ran(click, r)

ClickVerifyCopper ==
    /\ OnMainPage
    /\ \E outcome \in {AllOk.verify, Response(401, InvalidJson)} :
          LET click == [widget |-> "verify_copper"] IN
          \E r \in {RunScript(click, [AllOk EXCEPT !.verify = outcome])} : Ran(click, r)

ClickRefreshLeads ==
    /\ OnMainPage
    /\ LET click == [widget |-> "refresh"] IN \E r \in {RunScript(click, AllOk)} : Ran(click, r)

ClickDraftEmail ==
    /\ OnMainPage
    /\ \E lead_id \in screen.rendered, env \in HttpEnvs :
          LET click == [widget |-> "draft", lead_id |-> lead_id] IN
          \E r \in {RunScript(click, env)} : Ran(click, r)

SelectReason ==
    /\ OnMainPage
    /\ \E lead_id \in DOMAIN screen.drafts, reason \in ReasonPicks, env \in HttpEnvs :
          LET click == [widget |-> "reason", lead_id |-> lead_id, reason |-> reason] IN
          /\ reason # screen.drafts[lead_id].reason
          /\ \E r \in {RunScript(click, env)} : Ran(click, r)

ClickSendEmail ==
    /\ OnMainPage
    /\ \E lead_id \in DOMAIN screen.drafts, cc_email \in CcPicks, env \in SendEnvs,
          faults \in {<<NoFault, NoFault>>, <<LoginFault, NoFault>>,
                      <<NoFault, SendmailFault>>} :
          LET click == [widget |-> "send", lead_id |-> lead_id, cc_email |-> cc_email] IN
          \E r \in {RunScript(click, [env EXCEPT !.smtp = faults[1], !.send = faults[2]])} : Ran(click, r)

ClickCancel ==
    /\ OnMainPage
    /\ \E lead_id \in DOMAIN screen.drafts, env \in HttpEnvs :
          LET click == [widget |-> "cancel", lead_id |-> lead_id] IN
          \E r \in {RunScript(click, env)} : Ran(click, r)

OpenMappingTool ==
    /\ ~pending_rerun /\ screen # NotCalled
    /\ \E fetch \in BOOLEAN, outcome \in Failures \cup {AllOk.defs} :
          LET click == [widget |-> "mapping_tool", fetch |-> fetch] IN
          \E r \in {RunScript(click, [AllOk EXCEPT !.defs = outcome])} : Ran(click, r)

\* The scripts are programs of their own and share no state with the
\* dashboard: their runs are placed before the page is first loaded.
ScriptRan(fn, result) ==
    /\ Called([fn |-> fn], result)
    /\ UNCHANGED <<email_vars, field_vars, time_vars, config_vars, cache_vars,
                   log_records, ui_vars>>

RunListLeads ==
    /\ screen = NotCalled
    /\ \E outcome \in ScriptOutcomes(RecentLeadsPayloads) :
          ScriptRan("fetch_recent_leads", fetch_recent_leads(outcome))

RunAllFields ==
    /\ screen = NotCalled
    /\ \E outcome \in ScriptOutcomes(ActivitiesPayloads) :
          ScriptRan("fetch_activity_logs", fetch_activity_logs(outcome))

RunCustomFields ==
    /\ screen = NotCalled
    /\ \E outcome \in ScriptOutcomes(OpportunityPayloads) :
          ScriptRan("get_opportunity_details", get_opportunity_details(outcome))

\* Opening or closing an expander happens in the browser: no script run
ToggleExpander ==
    /\ OnMainPage
    /\ \E lead_id \in screen.rendered \cap Openable :
          opened' = IF lead_id \in opened THEN opened \ {lead_id} ELSE opened \cup {lead_id}
    /\ UNCHANGED <<email_vars, field_vars, time_vars, net_vars, selected_leads,
                   email_cache, screen, pending_rerun>>

NextUi ==
    \/ Load
    \/ Rerun
    \/ ClickTestConnection
    \/ ClickVerifyCopper
    \/ ClickRefreshLeads
    \/ ClickDraftEmail
    \/ SelectReason
    \/ ClickSendEmail
    \/ ClickCancel
    \/ OpenMappingTool
    \/ ToggleExpander
    \/ RunListLeads
    \/ RunAllFields
    \/ RunCustomFields

(***************************************************************************)
(* Properties of the CRM and SMTP calls                                    *)
(***************************************************************************)
WasCalled(fns) == net_call # NotCalled /\ net_call.fn \in fns

HttpOperations ==
    {"fetch_leads", "fetch_lead_details", "fetch_custom_field_definitions",
     "verify_copper_config"}
SmtpOperations == {"send_email", "test_email_connection"}

StepsOf(log) == [i \in DOMAIN log |-> log[i].step]
CountOf(log, step) == Cardinality({i \in DOMAIN log : log[i].step = step})
Completed(log, step) == \E i \in DOMAIN log : log[i].step = step /\ log[i].ok

\* C7: no CRM or SMTP operation lets an exception through to its caller:
\* whatever the network does, each of the six operations returns a value.
C7_NoExceptionPropagates ==
    WasCalled(HttpOperations \cup SmtpOperations) => net_ret.t = "return"

\* C8: no operation retries.  A CRM operation issues at most one HTTP
\* request, send_email connects at most once and calls sendmail at most
\* once, and a failing step is the last network step of its operation, so
\* sendmail never follows a failed connect, starttls or login.
C8_NoRetry ==
    /\ WasCalled(HttpOperations) => Len(net_log) <= 1
    /\ WasCalled(SmtpOperations) =>
          /\ CountOf(net_log, "connect") <= 1
          /\ CountOf(net_log, "sendmail") <= 1
    /\ \A i \in DOMAIN net_log : ~net_log[i].ok => i = Len(net_log)

\* send_email was called, login raised, and nothing was sent afterwards
C8_Witness ==
    /\ WasCalled({"send_email"})
    /\ Len(net_log) = 3
    /\ net_log[3].step = "login" /\ ~net_log[3].ok
    /\ CountOf(net_log, "sendmail") = 0

SmtpOrder == <<"connect", "starttls", "login", "sendmail", "quit">>

\* C9: the SMTP steps of send_email are a prefix of connect, start TLS,
\* login, send, quit on one connection; sendmail happens only after connect,
\* starttls and login completed, and (True, 'Email sent successfully!') is
\* returned only after quit followed sendmail.
C9_SmtpStepsInOrder ==
    WasCalled({"send_email"}) =>
        /\ \E n \in 0..Len(SmtpOrder) : StepsOf(net_log) = SubSeq(SmtpOrder, 1, n)
        /\ \A i \in DOMAIN net_log : net_log[i].url = SMTP_SERVER
        /\ \A i \in DOMAIN net_log :
              net_log[i].step = "sendmail" =>
                  /\ i = 4
                  /\ \A j \in 1..3 : net_log[j].ok
        /\ net_ret = Returned(Pair(TRUE, "Email sent successfully!", NoExc)) =>
              /\ StepsOf(net_log) = SmtpOrder
              /\ \A i \in DOMAIN net_log : net_log[i].ok

\* send_email went through all five steps and reported success
C9_Witness ==
    /\ WasCalled({"send_email"})
    /\ net_ret = Returned(Pair(TRUE, "Email sent successfully!", NoExc))
    /\ Len(net_log) = 5

SmtpErrorClasses ==
    {"SMTPException", "SMTPResponseException", "SMTPServerDisconnected",
     "SMTPDataError", "SMTPConnectError", "SMTPHeloError", "SMTPNotSupportedError"}

\* The message the failure class of an exception calls for
MessageFor(e) ==
    CASE e.class = "SMTPAuthenticationError" ->
            IF Contains(e.str, <<"5", "3", "5">>)
            THEN [text |-> APP_PASSWORD_GUIDANCE, exc |-> NoExc]
            ELSE [text |-> "Authentication failed: ", exc |-> e]
      [] e.class = "SMTPSenderRefused" -> [text |-> "Sender refused: ", exc |-> e]
      [] e.class = "SMTPRecipientsRefused" -> [text |-> "Recipient(s) refused: ", exc |-> e]
      [] e.class \in SmtpErrorClasses -> [text |-> "SMTP error: ", exc |-> e]
      [] OTHER -> [text |-> "Failed to send email: ", exc |-> e]

\* C10: send_email always returns a pair; when a step raised, or a
\* precondition failed, the pair is (False, message), the message being the
\* one of the exception's failure class; (True, ...) is returned only if
\* sendmail and quit both completed.
C10_FailureMessages ==
    WasCalled({"send_email"}) =>
        /\ net_ret.t = "return" /\ net_ret.v.t = "pair"
        /\ RaisedIn(net_log) # NoExc =>
              /\ ~net_ret.v.ok
              /\ net_ret.v.message = MessageFor(RaisedIn(net_log))
        /\ net_log = <<>> => ~net_ret.v.ok
        /\ net_ret.v.ok => Completed(net_log, "sendmail") /\ Completed(net_log, "quit")

\* sendmail raised SMTPDataError, reported as a general SMTP error
C10_Witness ==
    /\ WasCalled({"send_email"})
    /\ RaisedIn(net_log).class = "SMTPDataError"
    /\ net_ret.v.message.text = "SMTP error: "

SendmailStep == net_log[CHOOSE i \in DOMAIN net_log : net_log[i].step = "sendmail"]

\* C13: CC is optional in send_email.  Whenever sendmail is called, a
\* non-empty cc_email puts a Cc header on the message and makes the envelope
\* recipients exactly [recipient_email, cc_email]; an empty or None cc_email
\* gives no Cc header and the envelope recipients exactly [recipient_email].
C13_CcIsOptional ==
    (WasCalled({"send_email"}) /\ CountOf(net_log, "sendmail") > 0) =>
        LET cc == net_call.cc_email
            sent == SendmailStep.detail
        IN  IF cc.t = "str" /\ cc.s # <<>>
            THEN /\ "Cc" \in DOMAIN sent.msg
                 /\ sent.msg.Cc = cc.s
                 /\ sent.to_addrs = <<net_call.recipient_email, cc.s>>
            ELSE /\ "Cc" \notin DOMAIN sent.msg
                 /\ sent.to_addrs = <<net_call.recipient_email>>

\* an email with a CC address went out, to both addresses
C13_Witness ==
    /\ WasCalled({"send_email"})
    /\ Completed(net_log, "sendmail")
    /\ net_call.cc_email = Str(<<"c", "c", "@", "x">>)
    /\ Len(SendmailStep.detail.to_addrs) = 2

IsCall(call, fns) == call # NotCalled /\ call.fn \in fns

\* The response a call got, when it issued a request and was answered
Answered(log) == Len(log) = 1 /\ log[1].response.t = "response"

\* C20: only successful responses are cached.  An entry enters
\* LEAD_DETAILS_CACHE, and FIELD_DEFINITIONS_CACHE becomes non-None, only in a
\* call whose request was answered with status 200, and what is stored is
\* what that response carried; a response with another status makes
\* fetch_lead_details / fetch_custom_field_definitions return {} and leave
\* the cache as it was; a call for a lead that is not cached issues a request.
C20_OnlySuccessfulResponsesCached ==
    [][ /\ \A id \in DOMAIN LEAD_DETAILS_CACHE' :
              (id \notin DOMAIN LEAD_DETAILS_CACHE
                  \/ LEAD_DETAILS_CACHE'[id] # LEAD_DETAILS_CACHE[id]) =>
                  /\ IsCall(net_call', {"fetch_lead_details"})
                  /\ net_call'.lead_id = id
                  /\ Answered(net_log')
                  /\ net_log'[1].response.status_code = 200
                  /\ net_log'[1].response.json = LEAD_DETAILS_CACHE'[id]
        /\ DOMAIN LEAD_DETAILS_CACHE \subseteq DOMAIN LEAD_DETAILS_CACHE'
        /\ FIELD_DEFINITIONS_CACHE' # FIELD_DEFINITIONS_CACHE =>
              /\ FIELD_DEFINITIONS_CACHE = None
              /\ IsCall(net_call', {"fetch_custom_field_definitions"})
              /\ Answered(net_log')
              /\ net_log'[1].response.status_code = 200
              /\ LET definitions == net_log'[1].response.json.data IN
                 \A id \in DOMAIN FIELD_DEFINITIONS_CACHE'.data :
                     \E i \in DOMAIN definitions :
                         /\ definitions[i].id = id
                         /\ definitions[i].name = FIELD_DEFINITIONS_CACHE'.data[id]
        /\ ( /\ IsCall(net_call', {"fetch_lead_details", "fetch_custom_field_definitions"})
             /\ Answered(net_log')
             /\ net_log'[1].response.status_code # 200 ) =>
              /\ net_ret' = Returned(EmptyDict)
              /\ cache_vars' = cache_vars
        /\ ( /\ IsCall(net_call', {"fetch_lead_details"})
             /\ net_call'.lead_id \notin DOMAIN LEAD_DETAILS_CACHE' ) =>
              Len(net_log') = 1
      ]_vars

\* lead 1 is cached; the request for lead 2 was answered 404, {} was
\* returned and lead 2 is still not cached
C20_Witness ==
    /\ WasCalled({"fetch_lead_details"})
    /\ net_call.lead_id = 2
    /\ Answered(net_log) /\ net_log[1].response.status_code = 404
    /\ net_ret = Returned(EmptyDict)
    /\ DOMAIN LEAD_DETAILS_CACHE = {1}

\* C15: credentials are logged only masked: no log record contains the
\* whole Copper API token or the whole email password.
C15_CredentialsMasked ==
    \A record \in log_records :
        /\ COPPER_API_TOKEN # <<>> => ~Contains(record, COPPER_API_TOKEN)
        /\ EMAIL_PASSWORD # <<>> => ~Contains(record, EMAIL_PASSWORD)

(***************************************************************************)
(* Properties of the dashboard.  A state after a script run holds the      *)
(* click that started the run (net_call), the network steps of the run     *)
(* (net_log), what the session keeps and what the page shows (screen).     *)
(***************************************************************************)
IsRun(call) == call # NotCalled /\ call.fn = "main"
Clicked(call, widget) == IsRun(call) /\ call.click.widget = widget
Requested(log, url) == \E i \in DOMAIN log : log[i].step = "GET" /\ log[i].url = url
IsSmtp(entry) == entry.step \in {SEND_STEPS[i] : i \in DOMAIN SEND_STEPS}
SmtpSteps(log) == SelectSeq(log, IsSmtp)
\* A step that is a script run started by a click on the widget; opening or
\* closing an expander is the one step that is no script run
RunStep == IsRun(net_call') /\ opened' = opened
ClickStep(widget) == RunStep /\ net_call'.click.widget = widget

\* C11: "Refresh Leads" clears the cached CRM state.  When the run of a
\* click on the button ends, LEAD_DETAILS_CACHE is empty,
\* FIELD_DEFINITIONS_CACHE is None and the session holds no email_cache
\* entry; and in the run that follows, whatever is shown or stored was
\* requested from the CRM in that run: every lead rendered, every lead in
\* LEAD_DETAILS_CACHE and the field definitions have their request in the
\* run's network steps.
C11_RefreshClearsCaches ==
    [][ /\ Clicked(net_call', "refresh") =>
              /\ LEAD_DETAILS_CACHE' = <<>>
              /\ FIELD_DEFINITIONS_CACHE' = None
              /\ email_cache' \in {Absent, Dict(<<>>)}
        /\ (Clicked(net_call, "refresh") /\ RunStep) =>
              /\ \A id \in screen'.rendered \cup DOMAIN LEAD_DETAILS_CACHE' :
                    Requested(net_log', LeadUrl(id))
              /\ FIELD_DEFINITIONS_CACHE' # None =>
                    Requested(net_log', "/custom_field_definitions")
      ]_vars

\* "Refresh Leads" was clicked while a draft made from fetched lead details
\* was open; the run has ended and the script is about to run again
C11_Witness ==
    /\ Clicked(net_call, "refresh")
    /\ pending_rerun
    /\ LEAD_DETAILS_CACHE = <<>>
    /\ selected_leads # Absent
    /\ DOMAIN selected_leads.map # {}

\* The request of fetch_leads() among the network steps of a script run
LeadsRequest ==
    net_log[CHOOSE i \in DOMAIN net_log :
                net_log[i].step = "GET" /\ net_log[i].url = "/leads/search"]

\* fetch_leads() as the dashboard saw it: 401 and every other status but 200
\* give the error dictionary, a body is returned only for status 200, and
\* leads are rendered only from a non-empty list
FetchLeadsBranches ==
    (IsRun(net_call) /\ screen.leads_result # NotCalled) =>
        LET answered == LeadsRequest.response.t = "response"
            response == LeadsRequest.response
        IN  /\ (answered /\ response.status_code = 401) =>
                    screen.leads_result = ErrorDict("authentication error", 401)
            /\ (answered /\ response.status_code \notin {200, 401}) =>
                    screen.leads_result = ErrorDict("API error: ", response.status_code)
            /\ screen.leads_result.t = "json" =>
                    /\ answered /\ response.status_code = 200
                    /\ screen.leads_result = response.json
            /\ screen.leads_result.t \in {"json", "error_dict"}
            /\ screen.rendered # {} =>
                    /\ screen.leads_result.t = "json"
                    /\ screen.leads_result.data # <<>>
                    /\ screen.rendered \subseteq
                          {screen.leads_result.data[i].id : i \in DOMAIN screen.leads_result.data}

\* fetch_activity_logs(): [] for every status but 200, a body only for 200
FetchActivityLogsBranches ==
    (WasCalled({"fetch_activity_logs"}) /\ Answered(net_log)) =>
        LET response == net_log[1].response IN
        /\ response.status_code # 200 => net_ret = Returned(List(<<>>))
        /\ (net_ret.t = "return" /\ net_ret.v.t = "json") =>
                response.status_code = 200 /\ net_ret.v = response.json

\* C12 as stated: every CRM-calling function returns the parsed body only
\* for status 200 and its error value for every other status (fetch_leads
\* the error dictionary, fetch_activity_logs [], fetch_recent_leads None),
\* and the dashboard renders leads only from a non-empty list.
C12_BodyOnlyForStatus200 ==
    /\ FetchLeadsBranches
    /\ FetchActivityLogsBranches
    /\ (WasCalled({"fetch_recent_leads"}) /\ Answered(net_log)) =>
          LET response == net_log[1].response IN
          /\ response.status_code # 200 => net_ret = Returned(None)
          /\ net_ret.v.t = "json" =>
                response.status_code = 200 /\ net_ret.v = response.json

\* C12, amended: fetch_leads and fetch_activity_logs return the parsed body
\* only for status 200 and their error value for every other status;
\* fetch_recent_leads returns None for every status from 400 on and returns
\* the parsed body only for a status below 400, which need not be 200; the
\* dashboard renders leads only from a non-empty list.
C12_BodyOnlyForStatus200_Amended ==
    /\ FetchLeadsBranches
    /\ FetchActivityLogsBranches
    /\ (WasCalled({"fetch_recent_leads"}) /\ Answered(net_log)) =>
          LET response == net_log[1].response IN
          /\ response.status_code >= HTTP_ERROR_FROM => net_ret = Returned(None)
          /\ net_ret.v.t = "json" =>
                response.status_code < HTTP_ERROR_FROM /\ net_ret.v = response.json

\* fetch_recent_leads() got status 202 and returned the leads of the body
C12_Witness ==
    /\ WasCalled({"fetch_recent_leads"})
    /\ Answered(net_log)
    /\ net_log[1].response.status_code = ACCEPTED
    /\ net_ret.v.t = "json"
    /\ net_ret.v.data # <<>>

\* The lead of the click that started the run, and whether its "Send Email"
\* handler was reached (its draft was rendered in this run)
ClickedLead == net_call.click.lead_id
VerificationFailed(log) ==
    \E i \in DOMAIN SmtpSteps(log) : i <= Len(TEST_STEPS) /\ ~SmtpSteps(log)[i].ok

\* C16: "Send Email" calls send_email only after the verification connection
\* of the same click went through connect, starttls, login and quit without
\* an error, and only with a non-empty recipient and configured email
\* credentials; when the verification fails, send_email is not called and
\* sendmail is never reached.
C16_SendOnlyAfterVerification ==
    Clicked(net_call, "send") =>
        LET smtp == SmtpSteps(net_log) IN
        /\ screen.send # NotCalled =>
              /\ Len(smtp) >= Len(TEST_STEPS)
              /\ \A i \in DOMAIN TEST_STEPS : smtp[i].step = TEST_STEPS[i] /\ smtp[i].ok
              /\ screen.send.lead_id = ClickedLead
              /\ screen.send.recipient_email # <<>>
              /\ EMAIL_ADDRESS # <<>> /\ EMAIL_PASSWORD # <<>>
        /\ VerificationFailed(net_log) =>
              /\ screen.send = NotCalled
              /\ CountOf(net_log, "sendmail") = 0
        /\ screen.send = NotCalled => CountOf(net_log, "sendmail") = 0

\* the verification connection succeeded and send_email then sent the message
C16_Witness ==
    /\ Clicked(net_call, "send")
    /\ screen.send # NotCalled
    /\ screen.send.ret.ok
    /\ StepsOf(SmtpSteps(net_log)) = TEST_STEPS \o SEND_STEPS

SendErrors ==
    {"No recipient email address found for this lead.",
     "Email credentials not configured.",
     "Failed to connect to email server: "}

\* C17: after a click on "Send Email" the lead is removed from
\* selected_leads if and only if send_email returned success.  In every
\* other outcome of the handler (recipient missing, credentials missing,
\* verification failed, send_email returned failure) selected_leads is what
\* it was before the click and an error message is shown: the one of the
\* branch taken, and never "Email sent to".
C17_RemovedIffSent ==
    [][ ClickStep("send") =>
            LET id == net_call'.click.lead_id
                called == screen'.send # NotCalled
                sent == called /\ screen'.send.ret.ok
                reached == id \in DOMAIN screen'.drafts
                shown == screen'.messages
            IN  /\ sent => /\ selected_leads' = Dict(Remove(selected_leads.map, id))
                           /\ id \in DOMAIN selected_leads.map
                           /\ "Email sent to " \in shown
                /\ ~sent => /\ selected_leads' = selected_leads
                            /\ "Email sent to " \notin shown
                /\ (reached /\ ~called) => shown \cap SendErrors # {}
                /\ (called /\ ~sent) => screen'.send.ret.message.text \in shown
                /\ (reached /\ VerificationFailed(net_log')) =>
                        "Failed to connect to email server: " \in shown
                /\ (reached /\ (EMAIL_ADDRESS = <<>> \/ EMAIL_PASSWORD = <<>>)) =>
                        /\ ~called
                        /\ shown \cap {"No recipient email address found for this lead.",
                                       "Email credentials not configured."} # {}
      ]_vars

\* send_email returned failure: the lead is still selected and the failure
\* is shown
C17_Witness ==
    /\ Clicked(net_call, "send")
    /\ screen.send # NotCalled
    /\ ~screen.send.ret.ok
    /\ ClickedLead \in DOMAIN selected_leads.map
    /\ screen.send.ret.message.text \in screen.messages

\* C18: lead details are loaded lazily.  A script run requests the details
\* of a lead only if the operator has opened that lead's expander.
C18_DetailsFetchedOnlyWhenOpened ==
    IsRun(net_call) =>
        \A id \in LeadIds : Requested(net_log, LeadUrl(id)) => id \in opened

\* C19: a cache hit never touches the network.  Once LEAD_DETAILS_CACHE
\* holds a lead, no later run requests that lead's details, and once
\* FIELD_DEFINITIONS_CACHE holds the definition map, no later run requests
\* the field definitions, unless the run is that of a click on "Refresh
\* Leads" (the mapping tool, which requests the definitions on its own, is
\* left aside).
C19_CacheHitNeverTouchesNetwork ==
    [][ ( /\ RunStep
          /\ net_call'.click.widget \notin {"refresh", "mapping_tool"} ) =>
            /\ \A id \in DOMAIN LEAD_DETAILS_CACHE : ~Requested(net_log', LeadUrl(id))
            /\ FIELD_DEFINITIONS_CACHE # None =>
                    ~Requested(net_log', "/custom_field_definitions")
      ]_vars

\* The bodies generate_rejection_email gives for a lead and a reason: from
\* the details the CRM has, or from {} when the request for them failed
DraftBodies(lead_id, reason) ==
    {generate_rejection_email(LeadData(lead_details), reason) :
        lead_details \in {UiDetails(lead_id), EmptyDict}}

C22_ReasonIsAnOption ==
    /\ Cardinality(ReasonKeys) = 7
    /\ selected_leads # Absent =>
          \A id \in DOMAIN selected_leads.map : selected_leads.map[id].reason \in ReasonKeys
    /\ IsRun(net_call) => net_ret # Raised("ValueError")

\* both leads are selected, one with the reason it was selected with and one
\* with a changed reason, and the selectbox of each was rendered
C22_Witness ==
    /\ IsRun(net_call)
    /\ selected_leads # Absent
    /\ DOMAIN selected_leads.map = LeadIds
    /\ DOMAIN screen.drafts = LeadIds
    /\ {selected_leads.map[id].reason : id \in LeadIds} = {"general", "hardware"}

(***************************************************************************)
(* The fallback template                                                   *)
(***************************************************************************)

\* C14: when no template file could be loaded, so that the built-in default
\* is in effect, generate_rejection_email returns a non-empty body for each
\* of the seven rejection reasons the dashboard offers (for a lead whose
\* name and company are texts).
C14_FallbackServesEveryReason ==
    ( /\ gen_args # NotCalled
      /\ EMAIL_TEMPLATES = DefaultTemplates
      /\ gen_args.template_type \in ReasonKeys
      /\ IsStr(LeadGet(gen_args.lead_data.name))
      /\ IsStr(LeadGet(gen_args.lead_data.company_name)) )
    => IsStr(email_content) /\ email_content.s # <<>>

(***************************************************************************)
(* Specifications.  Each one runs one group of operations; the state of    *)
(* the other groups stays as it is right after import.                     *)
(***************************************************************************)
IdleEmail ==
    /\ EMAIL_TEMPLATES = DefaultTemplates
    /\ EMAIL_ADDRESS = <<>>
    /\ gen_args = NotCalled
    /\ email_content = NotCalled

IdleFields ==
    /\ current_lead = [tags |-> Absent, source |-> Absent, custom_fields |-> Absent]
    /\ gcf_call = NotCalled
    /\ gcf_ret = NotCalled
    /\ source_ret = NotCalled

IdleTime ==
    /\ clock = [now |-> 1700000000, tz |-> "UTC"]
    /\ time_call = NotCalled
    /\ time_ret = NotCalled

IdleNet ==
    /\ COPPER_API_TOKEN = <<>>
    /\ COPPER_EMAIL = <<>>
    /\ EMAIL_PASSWORD = <<>>
    /\ LEAD_DETAILS_CACHE = <<>>
    /\ FIELD_DEFINITIONS_CACHE = None
    /\ net_call = NotCalled
    /\ net_ret = NotCalled
    /\ net_log = <<>>
    /\ log_records = {}

IdleUi ==
    /\ selected_leads = Absent
    /\ email_cache = Absent
    /\ screen = NotCalled
    /\ pending_rerun = FALSE
    /\ opened = {}

StartEmail == InitEmail /\ IdleFields /\ IdleTime /\ IdleNet /\ IdleUi

SpecEmail == StartEmail /\ [][NextEmail]_vars

StartFields == InitFields /\ IdleEmail /\ IdleTime /\ IdleNet /\ IdleUi

SpecFields == StartFields /\ [][NextFields]_vars

StartTime == InitTime /\ IdleEmail /\ IdleFields /\ IdleNet /\ IdleUi

SpecTime == StartTime /\ [][NextTime]_vars

StartNet == InitNet /\ IdleFields /\ IdleTime /\ IdleUi

SpecNet == StartNet /\ [][NextNet]_vars

StartUi == InitUi /\ IdleFields /\ IdleTime

SpecUi == StartUi /\ [][NextUi]_vars

====
